---- MODULE Spec2Model ----
(***************************************************************************)
(* Newspod: the newsletter-to-podcast pipeline.                            *)
(*                                                                         *)
(* The module models NewsletterPodcastGenerator.generate_podcast and       *)
(* generate_segmented_podcast (podcast_generator.py) as a state machine    *)
(* over the result dictionary, together with the collaborators whose       *)
(* return values decide the control flow: EmailService.fetch_newsletters,  *)
(* NewsletterFilter.filter_newsletters_parallel, SummarizationService,     *)
(* VoiceService.text_to_speech, StorageService.upload_audio and            *)
(* DriveService.upload_podcast.  What an external system answers (a mail   *)
(* server, an API, the file system) is a nondeterministic choice.          *)
(*                                                                         *)
(* Spec is one run of a generate method, with the relevance filter as one  *)
(* step.  SpecFilter is step 1.5 alone, task by task:                      *)
(* NewsletterFilter.filter_newsletters_parallel on its thread pool and     *)
(* the filter_results file.  SpecCache is EmailService.fetch_newsletters   *)
(* with its cache file, called by two runs that share one cache_path.      *)
(* SpecQuick is generate_podcast with its target duration and quick_mode   *)
(* as inputs (Spec calls it with their defaults).  Five specifications     *)
(* look into one function each, over inputs drawn from small sets:         *)
(* SpecKey (EmailService._generate_cache_key), SpecScan (the keyword       *)
(* filter of a live fetch), SpecCall (the keyword list generate_podcast    *)
(* passes to its accounts), SpecVoice                                      *)
(* (VoiceService.generate_podcast_with_segments) and SpecOracle            *)
(* (NewsletterFilter._filter_single_newsletter on one response).           *)
(* SpecConn is one EmailService object over its life: connect, fetch and   *)
(* disconnect in any order.  SpecShare is the files two runs write when    *)
(* they execute at the same time.                                          *)
(***************************************************************************)
EXTENDS Integers, Sequences, FiniteSets, TLC

\* ------------------------------------------------------------- bounds
\* Number of configured e-mail accounts (len(self.email_services)).
NumSources == 3
\* Most messages the mail servers hold, all accounts together, in the window.
MaxItems == 2
\* Longest list handed to filter_newsletters_parallel in SpecFilter.
MaxBatch == 3
\* Largest max_workers tried besides the one generate_podcast passes.
MaxWorkersTried == 2
\* How often the clock advances in SpecCache.
MaxTicks == 2
\* Most segments handed to generate_podcast_with_segments in SpecVoice.
MaxSegments == 4
\* Most calls made on one EmailService object in SpecConn.
MaxCalls == 4
\* How many seconds the clock advances in SpecShare.
MaxSeconds == 2
\* How many segments a run hands to generate_podcast_with_segments in SpecShare.
RunSegments == 2

\* ---------------------------------------------------------- constants
\* relevance_score of the error verdict, in tenths (0.5).
FallbackScore == 5
\* max_workers=10, as generate_podcast passes it.
OrchestratorMaxWorkers == 10
\* A cache file is used while cache_age.total_seconds() < 3600.
CacheTTL == 3600

\* Python's None, and a key the dictionary does not hold.
None == "None"
Absent == "absent"

Sources == 1..NumSources

\* The two runs that fetch with one fingerprint in SpecCache.
Runs == {"A", "B"}

\* ----------------------------------------------------------- state
VARIABLES
    mode,            \* entry point called: "single" | "segmented"
    smart,           \* self.newsletter_filter is set (filter_mode == "smart")
    drive,           \* self.drive_service is set (google_drive.enabled)
    pc,              \* position of the run in the method
    i,               \* index of the for loop over self.email_services
    result,          \* the result dictionary
    all_newsletters, \* all_newsletters
    newsletters,     \* newsletters
    script,          \* script
    generated_audio, \* generated_audio
    uploaded_url,    \* uploaded_url
    drive_file_id,   \* drive_file_id
    conn,            \* per account: self.connection
    fetched,         \* per account: what its fetch did in this run (history)
    disconnects,     \* per account: calls of disconnect() in this run (history)
    swallowed,       \* first account whose release raised in disconnect, 0: none (history)
    calls,           \* per collaborator: calls made in this run (history)
    args,            \* target_duration_minutes and quick_mode, as the caller gave them
    target_duration_minutes, \* target_duration_minutes
    sent,            \* arguments the collaborators were called with (history)
    \* filter_newsletters_parallel, task by task (SpecFilter)
    fpc,                  \* position in filter_newsletters_parallel and its caller
    max_workers,          \* max_workers
    submitted,            \* tasks handed to executor.submit so far
    future,               \* per task: its future's state and what the task ended in
    oracle_calls,         \* per task: calls of client.messages.create (history)
    yielded,              \* the tasks as_completed has yielded, in that order
    relevant_newsletters, \* relevant_newsletters
    filtered_results,     \* filtered_results, the value returned to generate_podcast
    filter_data,          \* filter_data, the content of the filter_results file
    \* EmailService.fetch_newsletters and its cache file (SpecCache)
    now,             \* the clock, in seconds
    ticks,           \* how often the clock has advanced (history)
    cache_file,      \* the file at cache_path: its chunks and its mtime
    use_cache,       \* per run: use_cache
    cpc,             \* per run: position in fetch_newsletters
    connection,      \* per run: self.connection
    live,            \* per run: newsletters, as the live fetch built it
    returned,        \* per run: the list fetch_newsletters returned
    cache_read,      \* per run: what the look into the cache found (history)
    offset,          \* per run: chunks of the cache file written so far
    \* EmailService._generate_cache_key (SpecKey)
    service,         \* per run: the EmailService object's fields
    request,         \* per run: hours_lookback, folder, newsletter_filters
    cache_key        \* per run: cache_key

argVars == <<args, target_duration_minutes, sent>>

genVars == <<mode, smart, drive, pc, i, result, all_newsletters, newsletters,
             script, generated_audio, uploaded_url, drive_file_id, conn, fetched,
             disconnects, swallowed, calls, argVars>>

filterVars == <<fpc, max_workers, submitted, future, oracle_calls, yielded,
                relevant_newsletters, filtered_results, filter_data>>

cacheVars == <<now, ticks, cache_file, use_cache, cpc, connection, live,
               returned, cache_read, offset>>

keyVars == <<service, request, cache_key>>
VARIABLE
    scan            \* one live fetch_newsletters call: the search's messages,
                    \* its newsletter_filters, the loop's position, newsletters


\* The variables of the specifications of single functions.
VARIABLE
    call            \* the keyword filters of one generate_podcast call: the
                    \* generator's profile, the caller's list, the loop's
                    \* position, the list each source was called with
VARIABLE
    voice           \* one generate_podcast_with_segments call: its arguments,
                    \* the loop's position, audio_files, what was returned
VARIABLE
    oracle          \* one scoring task: the oracle's response, the text taken
                    \* from it, the FilterResult, the verdict the caller keeps
VARIABLE
    imap            \* one EmailService object over its life: self.connection
                    \* and the state of the IMAP4 object behind it, the mail
                    \* server, and the calls made on the object so far
VARIABLE
    disk            \* the files two concurrent runs write: each run's
                    \* output_dir and position, the clock, who wrote each file
envVars == <<imap, disk>>

unitVars == <<keyVars, scan, call, voice, oracle, envVars>>

vars == <<genVars, filterVars, cacheVars, unitVars>>

Stages == {"filter", "script", "audio", "storage", "title", "drive"}

\* An entry of result["errors"]: the message and the account it names (0: none).
Err(msg, src) == [msg |-> msg, src |-> src]

\* A Newsletter fetched from account s, the j-th of its mailbox.
Item(s, j) == [source |-> s, n |-> j]

\* ------------------------------------------------------- pure helpers
IsPrefix(s, t) == Len(s) <= Len(t) /\ SubSeq(t, 1, Len(s)) = s

Range(s) == {s[k] : k \in 1..Len(s)}

\* result["errors"].append(e)
AppendError_Replace(res, e) == [res EXCEPT !.errors = <<e>>]
AppendError(res, e) == [res EXCEPT !.errors = Append(@, e)]

\* all_newsletters.extend(account_newsletters)
Extend_Front(all, account_newsletters) == account_newsletters \o all
Extend(all, account_newsletters) == all \o account_newsletters

\* The messages account s returns when its fetch succeeds with k of them.
RECURSIVE Mailbox(_, _)
Mailbox(s, k) == IF k = 0 THEN <<>> ELSE Append(Mailbox(s, k - 1), Item(s, k))

\* ------------------------------------------- the relevance filter call
\* What one scoring task ends in: _filter_single_newsletter returns a
\* FilterResult (scores in tenths), or the oracle call raises.
FilterOutcomes ==
    { [kind |-> "verdict", is_relevant |-> TRUE,  relevance_score |-> 9],
      [kind |-> "verdict", is_relevant |-> TRUE,  relevance_score |-> FallbackScore],
      [kind |-> "verdict", is_relevant |-> FALSE, relevance_score |-> 2],
      [kind |-> "error",   is_relevant |-> FALSE, relevance_score |-> 0] }

\* FilterResult(...) of a task that returned, and the error_result of one that raised.
FilterResult(o) ==
    [is_relevant |-> o.is_relevant, relevance_score |-> o.relevance_score,
     reason |-> "verdict"]
error_result ==
    [is_relevant |-> TRUE, relevance_score |-> FallbackScore,
     reason |-> "Error during filtering"]

\* The as_completed loop: futures complete in the order `order`; a relevant
\* verdict or an error appends a pair to relevant_newsletters.
RECURSIVE Collect(_, _, _, _)
Collect(items, outcome, order, k) ==
    IF k > Len(order) THEN <<>>
    ELSE LET o == outcome[order[k]]
             n == items[order[k]]
             pair == IF o.kind = "error"
                     THEN <<[newsletter |-> n, result |-> error_result]>>
                     ELSE IF o.is_relevant
                          THEN <<[newsletter |-> n, result |-> FilterResult(o)]>>
                          ELSE <<>>
         IN pair \o Collect(items, outcome, order, k + 1)

\* list.sort(key=relevance_score, reverse=True): stable, highest score first.
InsertByScore(sorted, p) ==
    LET k == Cardinality({j \in 1..Len(sorted) :
                 sorted[j].result.relevance_score >= p.result.relevance_score})
    IN SubSeq(sorted, 1, k) \o <<p>> \o SubSeq(sorted, k + 1, Len(sorted))
SortByScore_Unsorted(s) == s
RECURSIVE SortByScore(_)
SortByScore(s) ==
    IF s = <<>> THEN <<>>
    ELSE InsertByScore(SortByScore(SubSeq(s, 1, Len(s) - 1)), s[Len(s)])

filter_newsletters_parallel(items, outcome, order) ==
    SortByScore(Collect(items, outcome, order, 1))

\* The completion orders of n tasks.
Orders(n) == {f \in [1..n -> 1..n] : \A a, b \in 1..n : f[a] = f[b] => a = b}

\* -------------------------------------------------------- the result
\* No dictionary exists before the method creates one.
NoResult ==
    [success |-> FALSE, start_time |-> Absent, end_time |-> Absent,
     newsletters_found |-> 0, script_path |-> Absent, audio_path |-> Absent,
     uploaded_url |-> Absent, metadata_path |-> Absent,
     google_drive_id |-> Absent, audio_files |-> Absent, errors |-> <<>>]

\* generate_podcast's result = {...}
NewResult ==
    [NoResult EXCEPT !.start_time = "stamped", !.script_path = None,
                     !.audio_path = None, !.uploaded_url = None]

\* generate_segmented_podcast's result = {...}
NewSegmentedResult == NoResult

\* The filter's own state while no call of it is looked into.
FilterIdle ==
    /\ fpc = "idle"
    /\ max_workers = OrchestratorMaxWorkers
    /\ submitted = 0
    /\ future = <<>>
    /\ oracle_calls = <<>>
    /\ yielded = <<>>
    /\ relevant_newsletters = <<>>
    /\ filtered_results = <<>>
    /\ filter_data = <<>>

\* The cache's state while no fetch is looked into.
CacheIdle ==
    /\ now = 0
    /\ ticks = 0
    /\ cache_file = [exists |-> FALSE, readable |-> TRUE, content |-> <<>>, mtime |-> 0]
    /\ use_cache = [r \in Runs |-> FALSE]
    /\ cpc = [r \in Runs |-> "idle"]
    /\ connection = [r \in Runs |-> "none"]
    /\ live = [r \in Runs |-> <<>>]
    /\ returned = [r \in Runs |-> <<>>]
    /\ cache_read = [r \in Runs |-> "none"]
    /\ offset = [r \in Runs |-> 0]

\* No key computed yet; and newsletter_filters=None (an Optional list is a
\* record: whether a list is given, and the list).
NoKey == [md5 |-> <<>>]
NoFilters == [given |-> FALSE, list |-> <<>>]

\* No cache key is being computed.
KeyIdle ==
    /\ service = [r \in Runs |-> [email_address |-> <<>>, imap_server |-> <<>>]]
    /\ request = [r \in Runs |->
           [hours_lookback |-> 0, folder |-> <<>>, newsletter_filters |-> NoFilters]]
    /\ cache_key = [r \in Runs |-> NoKey]

\* No live fetch is looked into.
ScanIdle ==
    scan = [pc |-> "idle", messages |-> <<>>, newsletter_filters |-> NoFilters,
            next |-> 1, newsletters |-> <<>>]
\* No generate_podcast call is looked into for its keyword filters.
CallIdle ==
    call = [pc |-> "idle", smart |-> FALSE, user_role |-> <<>>, interests |-> <<>>,
            newsletter_filters |-> NoFilters, set_order |-> NoFilters,
            i |-> 1, passed |-> <<>>]
\* No generate_podcast_with_segments call is looked into.
VoiceIdle ==
    voice = [pc |-> "idle", segments |-> 0, combine |-> FALSE, i |-> 0,
             made |-> <<>>, audio_files |-> <<>>, combined |-> "no",
             returned |-> <<>>]
\* A scalar of JSON (true, false, a number, a string, null), by its text.
Scalar(tok) == [kind |-> "scalar", tok |-> tok, members |-> <<>>]

\* No verdict yet.
NoVerdict == [is_relevant |-> Scalar("null"), relevance_score |-> 0, reason |-> None]

\* No scoring task is looked into.
OracleIdle ==
    oracle = [pc |-> "idle", result_text |-> <<>>, json_str |-> <<>>,
              result |-> NoVerdict, error |-> None, verdict |-> NoVerdict]
\* No EmailService object is looked into over its life.
ImapIdle ==
    imap = [pc |-> "idle", connection |-> None, broken |-> FALSE,
            reachable |-> FALSE, password_ok |-> FALSE, log |-> <<>>]
\* No pair of concurrent runs is looked into for the files they write.
DiskIdle ==
    disk = [pc |-> "idle", now |-> 0, files |-> {}, run |-> <<>>]
EnvIdle == ImapIdle /\ DiskIdle

UnitIdle == KeyIdle /\ ScanIdle /\ CallIdle /\ VoiceIdle /\ OracleIdle /\ EnvIdle

\* target_duration_minutes: int = 10, quick_mode: bool = False
DefaultArgs == [target_duration_minutes |-> 10, quick_mode |-> FALSE]

\* No collaborator has been called.
NothingSent == [target_duration_minutes |-> {}, text |-> None, use_cache |-> <<>>]

\* A call that leaves target_duration_minutes and quick_mode at their defaults.
CalledWithDefaults ==
    /\ args = DefaultArgs
    /\ target_duration_minutes = DefaultArgs.target_duration_minutes
    /\ sent = NothingSent

Init ==
    /\ FilterIdle
    /\ CacheIdle
    /\ UnitIdle
    /\ CalledWithDefaults
    /\ mode \in {"single", "segmented"}
    /\ smart \in BOOLEAN
    /\ drive \in BOOLEAN
    /\ pc = "call"
    /\ i = 0
    /\ result = NoResult
    /\ all_newsletters = <<>>
    /\ newsletters = <<>>
    /\ script = None
    /\ generated_audio = None
    /\ uploaded_url = None
    /\ drive_file_id = None
    /\ conn = [s \in Sources |-> "none"]
    /\ fetched = [s \in Sources |-> [kind |-> "pending", items |-> <<>>]]
    /\ disconnects = [s \in Sources |-> 0]
    /\ swallowed = 0
    /\ calls = [c \in Stages |-> 0]

\* except Exception as e: result["errors"].append(str(e)); then the finally block.
Caught(e) ==
    /\ result' = AppendError(result, Err(e, 0))
    /\ pc' = "cleanup"

Called(c) == calls' = [calls EXCEPT ![c] = @ + 1]

\* ----------------------------------------------- generate_podcast
Max(a, b) == IF a >= b THEN a ELSE b

\* int(minutes * 0.25): the quarter, its fraction cut off (towards zero).
Quarter(minutes) ==
    IF minutes >= 0 THEN minutes \div 4 ELSE -((-minutes) \div 4)

\* target_duration_minutes = max(2, int(target_duration_minutes * 0.25))
QuickDuration_NoLeast(minutes) == Quarter(minutes)
QuickDuration(minutes) == Max(2, Quarter(minutes))

\* os.makedirs(output_dir) and result = {...}; makedirs is outside the try,
\* so its error leaves the method.
EnterGeneratePodcast ==
    /\ pc = "call" /\ mode = "single"
    /\ \/ /\ result' = NewResult
          /\ target_duration_minutes' =
                 IF args.quick_mode THEN QuickDuration(target_duration_minutes)
                 ELSE target_duration_minutes
          /\ pc' = "fetch"
          /\ i' = 1
       \/ /\ pc' = "raised"
          /\ UNCHANGED <<result, i, target_duration_minutes>>
    /\ UNCHANGED <<mode, smart, drive, all_newsletters, newsletters, script,
                   generated_audio, conn, fetched, disconnects, swallowed, calls>>
    /\ UNCHANGED <<uploaded_url, drive_file_id>>
    /\ UNCHANGED <<args, sent>>
    /\ UNCHANGED <<filterVars, cacheVars>>
    /\ UNCHANGED unitVars

\* use_cache=quick_mode
UseCache(quick_mode) == quick_mode

\* One turn of the loop over self.email_services: fetch_newsletters returns the
\* account's messages, or [] when connect() fails (line 108) or when the search
\* or a message fetch raises (line 163); an error that leaves the call is
\* caught by the loop's except.  With use_cache the messages may come from a
\* cache file not older than an hour, without a connection.
FetchSource ==
    /\ pc = "fetch" /\ i <= NumSources
    /\ \/ \E k \in 0..(MaxItems - Len(all_newsletters)) :
            /\ all_newsletters' = Extend(all_newsletters, Mailbox(i, k))
            /\ conn' = [conn EXCEPT ![i] = "open"]
            /\ fetched' = [fetched EXCEPT ![i] = [kind |-> "ok", items |-> Mailbox(i, k)]]
            /\ UNCHANGED result
       \/ /\ all_newsletters' = Extend(all_newsletters, <<>>)
          /\ fetched' = [fetched EXCEPT ![i] = [kind |-> "connect_failed", items |-> <<>>]]
          /\ UNCHANGED <<conn, result>>
       \/ /\ all_newsletters' = Extend(all_newsletters, <<>>)
          /\ conn' = [conn EXCEPT ![i] = "open"]
          /\ fetched' = [fetched EXCEPT ![i] = [kind |-> "fetch_error", items |-> <<>>]]
          /\ UNCHANGED result
       \/ /\ UseCache(args.quick_mode)
          /\ \E k \in 0..(MaxItems - Len(all_newsletters)) :
                /\ all_newsletters' = Extend(all_newsletters, Mailbox(i, k))
                /\ fetched' = [fetched EXCEPT ![i] = [kind |-> "cached", items |-> Mailbox(i, k)]]
          /\ UNCHANGED <<conn, result>>
       \/ /\ result' = AppendError(result, Err("Failed to fetch from", i))
          /\ fetched' = [fetched EXCEPT ![i] = [kind |-> "raised", items |-> <<>>]]
          /\ UNCHANGED <<conn, all_newsletters>>
    /\ i' = i + 1
    /\ UNCHANGED <<mode, smart, drive, pc, newsletters, script, generated_audio,
                   disconnects, swallowed, calls>>
    /\ UNCHANGED <<uploaded_url, drive_file_id>>
    /\ sent' = [sent EXCEPT !.use_cache = Append(@, UseCache(args.quick_mode))]
    /\ UNCHANGED <<args, target_duration_minutes>>
    /\ UNCHANGED <<filterVars, cacheVars>>
    /\ UNCHANGED unitVars

\* newsletters = all_newsletters, and the test of step 1.5.
FetchDone ==
    /\ pc = "fetch" /\ i > NumSources
    /\ newsletters' = all_newsletters
    /\ pc' = IF smart THEN "filter" ELSE "count"
    /\ UNCHANGED <<mode, smart, drive, i, result, all_newsletters, script,
                   generated_audio, conn, fetched, disconnects, swallowed, calls>>
    /\ UNCHANGED <<uploaded_url, drive_file_id>>
    /\ UNCHANGED argVars
    /\ UNCHANGED <<filterVars, cacheVars>>
    /\ UNCHANGED unitVars

\* newsletters = [newsletter for newsletter, result in filtered_results]
RECURSIVE Newsletters(_)
Newsletters(pairs) ==
    IF pairs = <<>> THEN <<>>
    ELSE <<Head(pairs).newsletter>> \o Newsletters(Tail(pairs))

\* Step 1.5 on a non-empty list: the filter call, then the filter_results file.
ApplySmartFilter ==
    /\ pc = "filter" /\ newsletters # <<>>
    /\ Called("filter")
    /\ \E outcome \in [1..Len(newsletters) -> FilterOutcomes],
          order \in Orders(Len(newsletters)) :
          newsletters' =
              Newsletters(filter_newsletters_parallel(newsletters, outcome, order))
    /\ \/ pc' = "count" /\ UNCHANGED result
       \/ Caught("OSError")
    /\ UNCHANGED <<mode, smart, drive, i, all_newsletters, script,
                   generated_audio, conn, fetched, disconnects, swallowed>>
    /\ UNCHANGED <<uploaded_url, drive_file_id>>
    /\ UNCHANGED argVars
    /\ UNCHANGED <<filterVars, cacheVars>>
    /\ UNCHANGED unitVars

\* Step 1.5 on an empty list: ThreadPoolExecutor(max_workers=min(10, 0))
\* raises ValueError, which the outer except catches.
FilterEmptyRaises ==
    /\ pc = "filter" /\ newsletters = <<>>
    /\ Called("filter")
    /\ Caught("max_workers must be greater than 0")
    /\ UNCHANGED <<mode, smart, drive, i, all_newsletters, newsletters, script,
                   generated_audio, conn, fetched, disconnects, swallowed>>
    /\ UNCHANGED <<uploaded_url, drive_file_id>>
    /\ UNCHANGED argVars
    /\ UNCHANGED <<filterVars, cacheVars>>
    /\ UNCHANGED unitVars

\* result["newsletters_found"] = len(newsletters); if not newsletters: ... return
CountNewsletters ==
    /\ pc = "count"
    /\ LET counted == [result EXCEPT !.newsletters_found = Len(newsletters)]
       IN IF newsletters = <<>>
          THEN /\ result' = AppendError(counted,
                     Err("No newsletters found in the specified time period", 0))
               /\ pc' = "cleanup"
          ELSE /\ result' = counted
               /\ pc' = "save_meta"
    /\ UNCHANGED <<mode, smart, drive, i, all_newsletters, newsletters, script,
                   generated_audio, conn, fetched, disconnects, swallowed, calls>>
    /\ UNCHANGED <<uploaded_url, drive_file_id>>
    /\ UNCHANGED argVars
    /\ UNCHANGED <<filterVars, cacheVars>>
    /\ UNCHANGED unitVars

\* self._save_newsletter_metadata(newsletters, output_dir): a file is written.
SaveNewsletterMetadata ==
    /\ pc = "save_meta"
    /\ \/ pc' = "script" /\ UNCHANGED result
       \/ Caught("OSError")
    /\ UNCHANGED <<mode, smart, drive, i, all_newsletters, newsletters, script,
                   generated_audio, conn, fetched, disconnects, swallowed, calls>>
    /\ UNCHANGED <<uploaded_url, drive_file_id>>
    /\ UNCHANGED argVars
    /\ UNCHANGED <<filterVars, cacheVars>>
    /\ UNCHANGED unitVars

\* Step 2: summarize_newsletters returns the script, or its error placeholder
\* (it never raises); the script file is written.
summarize_newsletters_Raw(response) == response
summarize_newsletters(response) ==
    IF response = "APIError" THEN "Error generating podcast script" ELSE response

GenerateScript ==
    /\ pc = "script"
    /\ Called("script")
    /\ \E response \in {"script", "APIError"} :
          script' = summarize_newsletters(response)
    /\ \/ /\ result' = [result EXCEPT !.script_path = "podcast_script.txt"]
          /\ pc' = "audio"
       \/ Caught("OSError")
    /\ UNCHANGED <<mode, smart, drive, i, all_newsletters, newsletters,
                   generated_audio, conn, fetched, disconnects, swallowed>>
    /\ UNCHANGED <<uploaded_url, drive_file_id>>
    /\ sent' = [sent EXCEPT !.target_duration_minutes = {target_duration_minutes}]
    /\ UNCHANGED <<args, target_duration_minutes>>
    /\ UNCHANGED <<filterVars, cacheVars>>
    /\ UNCHANGED unitVars

\* if not generated_audio: ... return result
AudioNext_Continue(audio) == "upload"
AudioNext(audio) == IF audio = None THEN "cleanup" ELSE "upload"

\* Step 3: text_to_speech returns the path of the audio file, or None.
GenerateAudio ==
    /\ pc = "audio"
    /\ Called("audio")
    /\ \E audio \in {None, "podcast.mp3"} :
          /\ generated_audio' = audio
          /\ result' = IF audio = None
                       THEN AppendError(result, Err("Failed to generate audio", 0))
                       ELSE [result EXCEPT !.audio_path = audio]
          /\ pc' = AudioNext(audio)
    /\ UNCHANGED <<mode, smart, drive, i, all_newsletters, newsletters, script,
                   conn, fetched, disconnects, swallowed>>
    /\ UNCHANGED <<uploaded_url, drive_file_id>>
    /\ sent' = [sent EXCEPT !.text = script]
    /\ UNCHANGED <<args, target_duration_minutes>>
    /\ UNCHANGED <<filterVars, cacheVars>>
    /\ UNCHANGED unitVars

\* if uploaded_url: ... else: result["errors"].append(...)
StoreResult_Always(res, url) ==
    [res EXCEPT !.uploaded_url = url, !.success = TRUE]
StoreResult(res, url) ==
    IF url # None
    THEN [res EXCEPT !.uploaded_url = url, !.success = TRUE]
    ELSE AppendError(res, Err("Failed to upload audio to local storage", 0))

\* Step 4: upload_audio returns the stored file's place, or None; on success
\* the podcast metadata file is written.
UploadAudio ==
    /\ pc = "upload"
    /\ Called("storage")
    /\ \E url \in {None, "uploads/podcast.mp3"} :
          LET stored == StoreResult(result, url)
          IN /\ uploaded_url' = url
             /\ \/ /\ result' = IF url # None
                                THEN [stored EXCEPT !.metadata_path = "podcast_metadata.json"]
                                ELSE stored
                   /\ pc' = "drive"
                \/ /\ url # None
                   /\ result' = AppendError(stored, Err("OSError", 0))
                   /\ pc' = "cleanup"
    /\ UNCHANGED <<mode, smart, drive, i, all_newsletters, newsletters, script,
                   generated_audio, conn, fetched, disconnects, swallowed>>
    /\ UNCHANGED drive_file_id
    /\ UNCHANGED argVars
    /\ UNCHANGED <<filterVars, cacheVars>>
    /\ UNCHANGED unitVars

\* if self.drive_service and result["success"]:
DriveCondition_NoSuccessTest(res) == drive
DriveCondition(res) == drive /\ res.success

\* else: result["errors"].append("Failed to upload to Google Drive")
DriveFailed_Fatal(res) ==
    [res EXCEPT !.success = FALSE,
                !.errors = Append(@, Err("Failed to upload to Google Drive", 0))]
DriveFailed(res) == AppendError(res, Err("Failed to upload to Google Drive", 0))

\* Step 5: generate_podcast_title (never raises), then upload_podcast returns
\* the file id, or None; on success the metadata file is written again.
UploadToDrive ==
    /\ pc = "drive" /\ DriveCondition(result)
    /\ calls' = [calls EXCEPT !["title"] = @ + 1, !["drive"] = @ + 1]
    /\ \E id \in {None, "drive_file_id"} :
          /\ drive_file_id' = id
          /\ IF id # None
             THEN LET linked == [result EXCEPT !.google_drive_id = id]
                  IN \/ result' = linked
                     \/ result' = AppendError(linked, Err("OSError", 0))
             ELSE result' = DriveFailed(result)
    /\ pc' = "cleanup"
    /\ UNCHANGED <<mode, smart, drive, i, all_newsletters, newsletters, script,
                   generated_audio, conn, fetched, disconnects, swallowed>>
    /\ UNCHANGED uploaded_url
    /\ UNCHANGED argVars
    /\ UNCHANGED <<filterVars, cacheVars>>
    /\ UNCHANGED unitVars

SkipDrive ==
    /\ pc = "drive" /\ ~DriveCondition(result)
    /\ pc' = "cleanup"
    /\ UNCHANGED <<mode, smart, drive, i, result, all_newsletters, newsletters,
                   script, generated_audio, conn, fetched, disconnects, swallowed,
                   calls>>
    /\ UNCHANGED <<uploaded_url, drive_file_id>>
    /\ UNCHANGED argVars
    /\ UNCHANGED <<filterVars, cacheVars>>
    /\ UNCHANGED unitVars

\* finally: result["end_time"] = datetime.now().isoformat()
Finalize ==
    /\ pc = "cleanup"
    /\ result' = [result EXCEPT !.end_time = "stamped"]
    /\ pc' = "disconnect"
    /\ i' = 1
    /\ UNCHANGED <<mode, smart, drive, all_newsletters, newsletters, script,
                   generated_audio, conn, fetched, disconnects, swallowed, calls>>
    /\ UNCHANGED <<uploaded_url, drive_file_id>>
    /\ UNCHANGED argVars
    /\ UNCHANGED <<filterVars, cacheVars>>
    /\ UNCHANGED unitVars

\* try: email_service.disconnect() except: pass -- the loop goes on either way.
NextToRelease_Abort(k, raised) == IF raised THEN NumSources + 1 ELSE k + 1
NextToRelease(k, raised) == k + 1

\* One turn of the finally block's loop.  EmailService.disconnect closes and
\* logs out only if self.connection is set, swallows what that raises, and
\* leaves self.connection set.
DisconnectSource ==
    /\ pc = "disconnect" /\ i <= NumSources
    /\ disconnects' = [disconnects EXCEPT ![i] = @ + 1]
    /\ \E raised \in BOOLEAN :
          /\ raised => conn[i] # "none"
          /\ swallowed' = IF raised /\ swallowed = 0 THEN i ELSE swallowed
          /\ i' = NextToRelease(i, raised)
    /\ conn' = IF conn[i] = "none" THEN conn ELSE [conn EXCEPT ![i] = "closed"]
    /\ UNCHANGED <<mode, smart, drive, pc, result, all_newsletters, newsletters,
                   script, generated_audio, fetched, calls>>
    /\ UNCHANGED <<uploaded_url, drive_file_id>>
    /\ UNCHANGED argVars
    /\ UNCHANGED <<filterVars, cacheVars>>
    /\ UNCHANGED unitVars

\* return result
ReturnResult ==
    /\ pc = "disconnect" /\ i > NumSources
    /\ pc' = "returned"
    /\ UNCHANGED <<mode, smart, drive, i, result, all_newsletters, newsletters,
                   script, generated_audio, conn, fetched, disconnects, swallowed,
                   calls>>
    /\ UNCHANGED <<uploaded_url, drive_file_id>>
    /\ UNCHANGED argVars
    /\ UNCHANGED <<filterVars, cacheVars>>
    /\ UNCHANGED unitVars

\* -------------------------------------- generate_segmented_podcast
\* os.makedirs(output_dir), os.makedirs(segments_dir) and result = {...}.
EnterSegmentedPodcast ==
    /\ pc = "call" /\ mode = "segmented"
    /\ \/ /\ result' = NewSegmentedResult
          /\ pc' = "seg_fetch"
       \/ /\ pc' = "raised"
          /\ UNCHANGED result
    /\ UNCHANGED <<mode, smart, drive, i, all_newsletters, newsletters, script,
                   generated_audio, conn, fetched, disconnects, swallowed, calls>>
    /\ UNCHANGED <<uploaded_url, drive_file_id>>
    /\ UNCHANGED argVars
    /\ UNCHANGED <<filterVars, cacheVars>>
    /\ UNCHANGED unitVars

\* newsletters = self.email_service.fetch_newsletters(...): the object has
\* email_services only, so the attribute lookup raises AttributeError; the
\* except appends it and the finally block (which stamps no time) runs.
SegmentedFetch ==
    /\ pc = "seg_fetch"
    /\ result' = AppendError(result, Err("AttributeError: email_service", 0))
    /\ pc' = "disconnect"
    /\ i' = 1
    /\ UNCHANGED <<mode, smart, drive, all_newsletters, newsletters, script,
                   generated_audio, conn, fetched, disconnects, swallowed, calls>>
    /\ UNCHANGED <<uploaded_url, drive_file_id>>
    /\ UNCHANGED argVars
    /\ UNCHANGED <<filterVars, cacheVars>>
    /\ UNCHANGED unitVars

Next ==
    \/ EnterGeneratePodcast
    \/ FetchSource
    \/ FetchDone
    \/ ApplySmartFilter
    \/ FilterEmptyRaises
    \/ CountNewsletters
    \/ SaveNewsletterMetadata
    \/ GenerateScript
    \/ GenerateAudio
    \/ UploadAudio
    \/ UploadToDrive
    \/ SkipDrive
    \/ Finalize
    \/ DisconnectSource
    \/ ReturnResult
    \/ EnterSegmentedPodcast
    \/ SegmentedFetch

Spec == Init /\ [][Next]_vars

\* generate_podcast of a generator with Drive and without smart filtering,
\* called in quick mode for -5 or for 13 minutes, or outside it for 13 minutes.
QuickInit ==
    /\ FilterIdle
    /\ CacheIdle
    /\ UnitIdle
    /\ args \in {[target_duration_minutes |-> -5, quick_mode |-> TRUE],
                 [target_duration_minutes |-> 13, quick_mode |-> TRUE],
                 [target_duration_minutes |-> 13, quick_mode |-> FALSE]}
    /\ target_duration_minutes = args.target_duration_minutes
    /\ sent = NothingSent
    /\ mode = "single"
    /\ smart = FALSE
    /\ drive = TRUE
    /\ pc = "call"
    /\ i = 0
    /\ result = NoResult
    /\ all_newsletters = <<>>
    /\ newsletters = <<>>
    /\ script = None
    /\ generated_audio = None
    /\ uploaded_url = None
    /\ drive_file_id = None
    /\ conn = [s \in Sources |-> "none"]
    /\ fetched = [s \in Sources |-> [kind |-> "pending", items |-> <<>>]]
    /\ disconnects = [s \in Sources |-> 0]
    /\ swallowed = 0
    /\ calls = [c \in Stages |-> 0]

\* The steps of generate_podcast without step 1.5.
QuickNext ==
    \/ EnterGeneratePodcast
    \/ FetchSource
    \/ FetchDone
    \/ CountNewsletters
    \/ SaveNewsletterMetadata
    \/ GenerateScript
    \/ GenerateAudio
    \/ UploadAudio
    \/ UploadToDrive
    \/ SkipDrive
    \/ Finalize
    \/ DisconnectSource
    \/ ReturnResult

SpecQuick == QuickInit /\ [][QuickNext]_vars

\* =================================================================
\* filter_newsletters_parallel, task by task (step 1.5 of generate_podcast)
\* =================================================================
Min(a, b) == IF a < b THEN a ELSE b

\* The values of max_workers a call is made with.
WorkerLimits == (1..MaxWorkersTried) \cup {OrchestratorMaxWorkers}

\* ThreadPoolExecutor(max_workers=min(max_workers, len(newsletters))): the
\* executor runs at most that many tasks at a time, and rejects 0.
PoolSize_Unbounded(limit, n) == n
PoolSize(limit, n) == Min(limit, n)

\* What a future holds before its task has ended.
NotRun == [kind |-> "none", is_relevant |-> FALSE, relevance_score |-> 0]

\* The variables of generate_podcast that step 1.5 leaves alone.
callerVars == <<mode, smart, drive, i, all_newsletters, script, generated_audio,
                uploaded_url, drive_file_id, conn, fetched, disconnects,
                swallowed, argVars>>

\* generate_podcast has fetched n messages from its first account and stands
\* before step 1.5, with a filter configured.
FilterInit ==
    /\ CacheIdle
    /\ UnitIdle
    /\ args = DefaultArgs
    /\ target_duration_minutes = DefaultArgs.target_duration_minutes
    /\ sent = [NothingSent EXCEPT !.use_cache = [s \in Sources |-> FALSE]]
    /\ mode = "single" /\ smart = TRUE /\ drive = FALSE
    /\ pc = "filter"
    /\ i = NumSources + 1
    /\ result = NewResult
    /\ \E n \in 0..MaxBatch :
          /\ all_newsletters = Mailbox(1, n)
          /\ newsletters = Mailbox(1, n)
          /\ fetched = [s \in Sources |->
                 [kind |-> "ok", items |-> IF s = 1 THEN Mailbox(1, n) ELSE <<>>]]
          /\ future = [t \in 1..n |-> [state |-> "new", outcome |-> NotRun]]
          /\ oracle_calls = [t \in 1..n |-> 0]
    /\ script = None
    /\ generated_audio = None
    /\ uploaded_url = None
    /\ drive_file_id = None
    /\ conn = [s \in Sources |-> "open"]
    /\ disconnects = [s \in Sources |-> 0]
    /\ swallowed = 0
    /\ calls = [c \in Stages |-> 0]
    /\ fpc = "call"
    /\ max_workers \in WorkerLimits
    /\ submitted = 0
    /\ yielded = <<>>
    /\ relevant_newsletters = <<>>
    /\ filtered_results = <<>>
    /\ filter_data = <<>>

\* The call, and the executor's construction.
CallFilterParallel ==
    /\ pc = "filter" /\ fpc = "call"
    /\ Called("filter")
    /\ IF PoolSize(max_workers, Len(newsletters)) > 0
       THEN /\ fpc' = "submit"
            /\ UNCHANGED <<pc, result>>
       ELSE /\ fpc' = "raised"
            /\ Caught("max_workers must be greater than 0")
    /\ UNCHANGED <<callerVars, newsletters, max_workers, submitted, future,
                   oracle_calls, yielded, relevant_newsletters,
                   filtered_results, filter_data>>
    /\ UNCHANGED cacheVars
    /\ UNCHANGED unitVars

\* executor.submit(self._filter_single_newsletter, newsletter, ...), one turn
\* of the comprehension over newsletters.
SubmitTask ==
    /\ fpc = "submit"
    /\ LET t == submitted + 1
       IN /\ submitted' = t
          /\ future' = [future EXCEPT ![t].state = "pending"]
          /\ fpc' = IF t = Len(newsletters) THEN "collect" ELSE "submit"
    /\ UNCHANGED <<callerVars, pc, result, newsletters, calls, max_workers,
                   oracle_calls, yielded, relevant_newsletters,
                   filtered_results, filter_data>>
    /\ UNCHANGED cacheVars
    /\ UNCHANGED unitVars

Running == {t \in DOMAIN future : future[t].state = "running"}

\* A free worker of the pool takes the oldest queued task.
RunTask ==
    /\ \E t \in DOMAIN future :
          /\ future[t].state = "pending"
          /\ \A u \in 1..(t - 1) : future[u].state # "pending"
          /\ Cardinality(Running) < PoolSize(max_workers, Len(newsletters))
          /\ future' = [future EXCEPT ![t].state = "running"]
    /\ UNCHANGED <<callerVars, pc, result, newsletters, calls, fpc, max_workers,
                   submitted, oracle_calls, yielded, relevant_newsletters,
                   filtered_results, filter_data>>
    /\ UNCHANGED cacheVars
    /\ UNCHANGED unitVars

\* A task that has made its call is over, whatever the call did.
TaskAfter_Retry(o) == IF o.kind = "error" THEN "pending" ELSE "finished"
TaskAfter(o) == "finished"

\* _filter_single_newsletter: one call of client.messages.create; the task
\* returns a FilterResult or raises.
FilterSingleNewsletter ==
    /\ \E t \in Running, o \in FilterOutcomes :
          /\ oracle_calls' = [oracle_calls EXCEPT ![t] = @ + 1]
          /\ future' = [future EXCEPT ![t] = [state |-> TaskAfter(o), outcome |-> o]]
    /\ UNCHANGED <<callerVars, pc, result, newsletters, calls, fpc, max_workers,
                   submitted, yielded, relevant_newsletters, filtered_results,
                   filter_data>>
    /\ UNCHANGED cacheVars
    /\ UNCHANGED unitVars

\* The body of the as_completed loop for newsletter n whose task ended in o:
\* what it appends to relevant_newsletters.
Pair_DropErrors(n, o) ==
    IF o.kind # "error" /\ o.is_relevant
    THEN <<[newsletter |-> n, result |-> FilterResult(o)]>>
    ELSE <<>>
Pair_KeepAll(n, o) ==
    IF o.kind = "error"
    THEN <<[newsletter |-> n, result |-> error_result]>>
    ELSE <<[newsletter |-> n, result |-> FilterResult(o)]>>
Pair(n, o) ==
    IF o.kind = "error"
    THEN <<[newsletter |-> n, result |-> error_result]>>
    ELSE IF o.is_relevant
         THEN <<[newsletter |-> n, result |-> FilterResult(o)]>>
         ELSE <<>>

\* The try/except inside the loop: the loop goes on after either branch.
AfterYield_Abort(o) == IF o.kind = "error" THEN "raised" ELSE "collect"
AfterYield(o) == "collect"

\* One turn of `for future in as_completed(future_to_newsletter)`: any task
\* that is over and was not yielded yet may come next.
YieldCompleted ==
    /\ fpc = "collect"
    /\ \E t \in DOMAIN future :
          /\ future[t].state = "finished"
          /\ t \notin Range(yielded)
          /\ yielded' = Append(yielded, t)
          /\ relevant_newsletters' =
                 relevant_newsletters \o Pair(newsletters[t], future[t].outcome)
          /\ fpc' = AfterYield(future[t].outcome)
    /\ UNCHANGED <<callerVars, pc, result, newsletters, calls, max_workers,
                   submitted, future, oracle_calls, filtered_results,
                   filter_data>>
    /\ UNCHANGED cacheVars
    /\ UNCHANGED unitVars

\* as_completed(future_to_newsletter) is exhausted: it has yielded every
\* future of the dictionary; leaving the with block waits for the workers.
AsCompletedExhausted_AtFirst == yielded # <<>> \/ newsletters = <<>>

AsCompletedExhausted == Len(yielded) = Len(newsletters)

\* The loop has yielded every future: the executor shuts down, the list is
\* sorted in place and returned.
SortAndReturn ==
    /\ fpc = "collect" /\ AsCompletedExhausted
    /\ relevant_newsletters' = SortByScore(relevant_newsletters)
    /\ filtered_results' = SortByScore(relevant_newsletters)
    /\ fpc' = "returned"
    /\ UNCHANGED <<callerVars, pc, result, newsletters, calls, max_workers,
                   submitted, future, oracle_calls, yielded, filter_data>>
    /\ UNCHANGED cacheVars
    /\ UNCHANGED unitVars

\* filter_data = [{"subject": ..., "source": ..., "relevance_score": ...,
\* "reason": ..., "topics": ...} for newsletter, result in filtered_results];
\* a message stands for its subject and source.
FilterData(pairs) ==
    [k \in 1..Len(pairs) |->
        [subject |-> pairs[k].newsletter,
         relevance_score |-> pairs[k].result.relevance_score,
         reason |-> pairs[k].result.reason]]

\* Back in generate_podcast: newsletters is replaced, filter_data is built and
\* written to the filter_results file.
SaveFilterResults ==
    /\ pc = "filter" /\ fpc = "returned"
    /\ newsletters' = Newsletters(filtered_results)
    /\ filter_data' = FilterData(filtered_results)
    /\ \/ /\ pc' = "count"
          /\ fpc' = "saved"
          /\ UNCHANGED result
       \/ /\ Caught("OSError")
          /\ fpc' = "save_failed"
    /\ UNCHANGED <<callerVars, calls, max_workers, submitted, future,
                   oracle_calls, yielded, relevant_newsletters,
                   filtered_results>>
    /\ UNCHANGED cacheVars
    /\ UNCHANGED unitVars

FilterNext ==
    \/ CallFilterParallel
    \/ SubmitTask
    \/ RunTask
    \/ FilterSingleNewsletter
    \/ YieldCompleted
    \/ SortAndReturn
    \/ SaveFilterResults

SpecFilter == FilterInit /\ [][FilterNext]_vars

\* =================================================================
\* EmailService.fetch_newsletters and its cache file
\* =================================================================
\* Two datetimes: an aware one, as parsedate_to_datetime builds it from a Date
\* header with an offset, and a naive one with microseconds, as the
\* datetime.now() fallback of _parse_date builds it.
AwareDate == [secs |-> 100, micro |-> 0, aware |-> TRUE, utcoffset |-> 330]
NaiveDate == [secs |-> 200, micro |-> 7, aware |-> FALSE, utcoffset |-> 0]

\* Newsletter(subject, sender, date, body, html_body, newsletter_source)
Newsletter(subject, sender, date, body, html_body, newsletter_source) ==
    [subject |-> subject, sender |-> sender, date |-> date, body |-> body,
     html_body |-> html_body, newsletter_source |-> newsletter_source]

\* The messages a mailbox may hold.
Messages ==
    { Newsletter("Weekly", "news@acme.com", AwareDate, "text", "<p>text</p>", "Acme"),
      Newsletter("Digest", "unknown", NaiveDate, "", "", "Unknown") }

\* The lists a live fetch may build: messages of the mailbox, none twice.
FetchedLists ==
    {list \in UNION {[1..k -> Messages] : k \in 0..Cardinality(Messages)} :
        \A a, b \in 1..Len(list) : list[a] = list[b] => a = b}

\* datetime.isoformat(): the seconds, the microseconds if there are any, the
\* UTC offset if the datetime is aware.
isoformat_NoOffset(d) ==
    <<[tag |-> "T", v |-> d.secs]>>
        \o (IF d.micro # 0 THEN <<[tag |-> ".", v |-> d.micro]>> ELSE <<>>)
isoformat(d) ==
    <<[tag |-> "T", v |-> d.secs]>>
        \o (IF d.micro # 0 THEN <<[tag |-> ".", v |-> d.micro]>> ELSE <<>>)
        \o (IF d.aware THEN <<[tag |-> "+", v |-> d.utcoffset]>> ELSE <<>>)

HasPart(str, tag) == \E k \in 1..Len(str) : str[k].tag = tag
PartOf(str, tag) == str[CHOOSE k \in 1..Len(str) : str[k].tag = tag].v

\* datetime.fromisoformat(): raises ValueError on a string that is no date.
IsIsoformat(str) == HasPart(str, "T")
fromisoformat(str) ==
    [secs |-> PartOf(str, "T"),
     micro |-> IF HasPart(str, ".") THEN PartOf(str, ".") ELSE 0,
     aware |-> HasPart(str, "+"),
     utcoffset |-> IF HasPart(str, "+") THEN PartOf(str, "+") ELSE 0]

\* One dictionary of cache_data.
CacheItem(newsletter) ==
    [subject |-> newsletter.subject, sender |-> newsletter.sender,
     date |-> isoformat(newsletter.date), body |-> newsletter.body,
     html_body |-> newsletter.html_body,
     newsletter_source |-> newsletter.newsletter_source]

\* json.dump(cache_data, f, indent=2), as the chunks that reach the file: the
\* opening bracket, one chunk per dictionary, the closing bracket.
Chunk(kind, data) == [kind |-> kind, data |-> data]
CacheDocument(list) ==
    <<Chunk("[", <<>>)>>
        \o [k \in 1..Len(list) |-> Chunk("item", <<CacheItem(list[k])>>)]
        \o <<Chunk("]", <<>>)>>

\* json.load(f) succeeds on a complete document only.
IsJson_Lenient(content) ==
    /\ Len(content) >= 1
    /\ content[1].kind = "["
    /\ \A k \in 2..Len(content) :
          content[k].kind = "item" \/ (k = Len(content) /\ content[k].kind = "]")
IsJson(content) ==
    /\ Len(content) >= 2
    /\ content[1].kind = "["
    /\ content[Len(content)].kind = "]"
    /\ \A k \in 2..(Len(content) - 1) : content[k].kind = "item"

\* The dictionaries of a document.
JsonItems(content) ==
    LET at == {k \in 1..Len(content) : content[k].kind = "item"}
    IN [j \in 1..Cardinality(at) |-> content[j + 1].data[1]]

\* item["subject"], item["sender"], item["date"], item["body"] are there and
\* the date parses; html_body and newsletter_source are read with .get().
Loadable(item) ==
    /\ {"subject", "sender", "date", "body"} \subseteq DOMAIN item
    /\ IsIsoformat(item.date)
LoadedNewsletter(item) ==
    Newsletter(item.subject, item.sender, fromisoformat(item.date), item.body,
               IF "html_body" \in DOMAIN item THEN item.html_body ELSE None,
               IF "newsletter_source" \in DOMAIN item
               THEN item.newsletter_source ELSE None)

\* _load_cached_newsletters: the list, or an exception.
LoadCachedNewsletters(file) ==
    IF file.readable /\ IsJson(file.content)
                     /\ \A k \in 1..Len(JsonItems(file.content)) :
                            Loadable(JsonItems(file.content)[k])
    THEN [ok |-> TRUE,
          newsletters |-> [k \in 1..Len(JsonItems(file.content)) |->
                              LoadedNewsletter(JsonItems(file.content)[k])]]
    ELSE [ok |-> FALSE, newsletters |-> <<>>]

\* if cache_age.total_seconds() < 3600
Fresh(cache_age) == cache_age < CacheTTL

\* except Exception as e: logger.warning(...) -- the call goes on to the fetch.
OnCacheError_Propagate == "raised"
OnCacheError == "connect"

\* Files found at cache_path that no run of this program version wrote whole:
\* garbage, a dictionary without its subject, a date that is no date, a
\* document cut short, and a file that cannot be opened.
CorruptFiles ==
    LET damaged(content, readable) ==
            [exists |-> TRUE, readable |-> readable, content |-> content, mtime |-> 0]
        good == CacheItem(CHOOSE m \in Messages : m.date = AwareDate)
    IN { damaged(<<Chunk("garbage", <<>>)>>, TRUE),
         damaged(<<Chunk("[", <<>>),
                   Chunk("item", <<[sender |-> good.sender, date |-> good.date,
                                    body |-> good.body]>>),
                   Chunk("]", <<>>)>>, TRUE),
         damaged(<<Chunk("[", <<>>),
                   Chunk("item", <<[good EXCEPT !.date = <<>>]>>),
                   Chunk("]", <<>>)>>, TRUE),
         damaged(<<Chunk("[", <<>>), Chunk("item", <<good>>)>>, TRUE),
         damaged(CacheDocument(<<>>), FALSE) }

NoFile == [exists |-> FALSE, readable |-> TRUE, content |-> <<>>, mtime |-> 0]

\* Two EmailService objects of the same account are about to fetch with the
\* same parameters, hence the same cache_path.  An object may hold the
\* connection of an earlier fetch.
CacheInit ==
    /\ FilterIdle
    /\ UnitIdle
    /\ CalledWithDefaults
    /\ mode = "single" /\ smart = FALSE /\ drive = FALSE
    /\ pc = "fetch" /\ i = 1
    /\ result = NewResult
    /\ all_newsletters = <<>>
    /\ newsletters = <<>>
    /\ script = None
    /\ generated_audio = None
    /\ uploaded_url = None
    /\ drive_file_id = None
    /\ conn = [s \in Sources |-> "none"]
    /\ fetched = [s \in Sources |-> [kind |-> "pending", items |-> <<>>]]
    /\ disconnects = [s \in Sources |-> 0]
    /\ swallowed = 0
    /\ calls = [c \in Stages |-> 0]
    /\ now = 0
    /\ ticks = 0
    /\ cache_file \in {NoFile} \cup CorruptFiles
    /\ use_cache \in [Runs -> BOOLEAN]
    /\ cpc = [r \in Runs |-> "call"]
    /\ connection \in [Runs -> {"none", "open"}]
    /\ live = [r \in Runs |-> <<>>]
    /\ returned = [r \in Runs |-> <<>>]
    /\ cache_read = [r \in Runs |-> "none"]
    /\ offset = [r \in Runs |-> 0]

\* return <list> from fetch_newsletters
Return_GoOn(r, list) ==
    /\ returned' = [returned EXCEPT ![r] = list]
    /\ cpc' = [cpc EXCEPT ![r] = "connect"]

Return(r, list) ==
    /\ returned' = [returned EXCEPT ![r] = list]
    /\ cpc' = [cpc EXCEPT ![r] = "returned"]

\* Time passes: by a second less than the cache's lifetime, then by a second,
\* and so on.
Tick ==
    /\ ticks < MaxTicks
    /\ ticks' = ticks + 1
    /\ now' = now + (IF ticks % 2 = 0 THEN CacheTTL - 1 ELSE 1)
    /\ UNCHANGED <<cache_file, use_cache, cpc, connection, live, returned,
                   cache_read, offset>>
    /\ UNCHANGED <<genVars, filterVars>>
    /\ UNCHANGED unitVars

\* The head of fetch_newsletters: the look into the cache.  os.path.exists,
\* getmtime and the read of the whole file are one step.
CheckCache(r) ==
    /\ cpc[r] = "call"
    /\ IF use_cache[r] /\ cache_file.exists
       THEN IF ~cache_file.readable
            THEN /\ cache_read' = [cache_read EXCEPT ![r] = "unreadable"]
                 /\ cpc' = [cpc EXCEPT ![r] = OnCacheError]
                 /\ UNCHANGED returned
            ELSE IF Fresh(now - cache_file.mtime)
                 THEN LET loaded == LoadCachedNewsletters(cache_file)
                      IN IF loaded.ok
                         THEN /\ cache_read' = [cache_read EXCEPT ![r] = "hit"]
                              /\ Return(r, loaded.newsletters)
                         ELSE /\ cache_read' = [cache_read EXCEPT ![r] = "corrupt"]
                              /\ cpc' = [cpc EXCEPT ![r] = OnCacheError]
                              /\ UNCHANGED returned
                 ELSE /\ cache_read' = [cache_read EXCEPT ![r] = "expired"]
                      /\ cpc' = [cpc EXCEPT ![r] = "connect"]
                      /\ UNCHANGED returned
       ELSE /\ cache_read' = [cache_read EXCEPT ![r] =
                                 IF use_cache[r] THEN "absent" ELSE "off"]
            /\ cpc' = [cpc EXCEPT ![r] = "connect"]
            /\ UNCHANGED returned
    /\ UNCHANGED <<now, ticks, cache_file, use_cache, connection, live, offset>>
    /\ UNCHANGED <<genVars, filterVars>>
    /\ UNCHANGED unitVars

\* if not self.connection: if not self.connect(): return []
Connect(r) ==
    /\ cpc[r] = "connect"
    /\ IF connection[r] = "none"
       THEN \/ /\ connection' = [connection EXCEPT ![r] = "open"]
               /\ cpc' = [cpc EXCEPT ![r] = "fetch"]
               /\ UNCHANGED returned
            \/ /\ Return(r, <<>>)
               /\ UNCHANGED connection
       ELSE /\ cpc' = [cpc EXCEPT ![r] = "fetch"]
            /\ UNCHANGED <<connection, returned>>
    /\ UNCHANGED <<now, ticks, cache_file, use_cache, live, cache_read, offset>>
    /\ UNCHANGED <<genVars, filterVars>>
    /\ UNCHANGED unitVars

\* if use_cache: self._save_newsletters_to_cache(newsletters, cache_path)
CachesResult_Always(r) == TRUE

CachesResult(r) == use_cache[r]

\* The try block: search, fetch and parse build newsletters; with use_cache the
\* list goes to _save_newsletters_to_cache; an exception returns [].
LiveFetch(r) ==
    /\ cpc[r] = "fetch"
    /\ \/ \E list \in FetchedLists :
            /\ live' = [live EXCEPT ![r] = list]
            /\ IF CachesResult(r)
               THEN /\ cpc' = [cpc EXCEPT ![r] = "save"]
                    /\ UNCHANGED returned
               ELSE Return(r, list)
       \/ /\ Return(r, <<>>)
          /\ UNCHANGED live
    /\ UNCHANGED <<now, ticks, cache_file, use_cache, connection, cache_read,
                   offset>>
    /\ UNCHANGED <<genVars, filterVars>>
    /\ UNCHANGED unitVars

\* _save_newsletters_to_cache: open(cache_path, "w") empties the file; an
\* exception is logged and the list is returned all the same.
OpenCacheFile(r) ==
    /\ cpc[r] = "save"
    /\ \/ /\ cache_file' = [cache_file EXCEPT !.exists = TRUE, !.content = <<>>,
                                             !.mtime = now]
          /\ offset' = [offset EXCEPT ![r] = 0]
          /\ cpc' = [cpc EXCEPT ![r] = "write"]
          /\ UNCHANGED returned
       \/ /\ Return(r, live[r])
          /\ UNCHANGED <<cache_file, offset>>
    /\ UNCHANGED <<now, ticks, use_cache, connection, live, cache_read>>
    /\ UNCHANGED <<genVars, filterVars>>
    /\ UNCHANGED unitVars

\* A write of one chunk at the writer's own position; the file grows if the
\* position is past its end.
WriteAt(content, k, chunk) ==
    [j \in 1..(IF k > Len(content) THEN k ELSE Len(content)) |->
        IF j = k THEN chunk
        ELSE IF j <= Len(content) THEN content[j] ELSE Chunk("hole", <<>>)]

\* json.dump writes the document chunk by chunk; an exception on the way is
\* logged and leaves the file as it is.
WriteChunk(r) ==
    /\ cpc[r] = "write"
    /\ offset[r] < Len(CacheDocument(live[r]))
    /\ \/ /\ cache_file' =
                 [cache_file EXCEPT
                     !.content = WriteAt(@, offset[r] + 1,
                                         CacheDocument(live[r])[offset[r] + 1]),
                     !.mtime = now]
          /\ offset' = [offset EXCEPT ![r] = @ + 1]
          /\ UNCHANGED <<cpc, returned>>
       \/ /\ Return(r, live[r])
          /\ UNCHANGED <<cache_file, offset>>
    /\ UNCHANGED <<now, ticks, use_cache, connection, live, cache_read>>
    /\ UNCHANGED <<genVars, filterVars>>
    /\ UNCHANGED unitVars

\* The with block closes the file; fetch_newsletters returns newsletters.
CloseCacheFile(r) ==
    /\ cpc[r] = "write"
    /\ offset[r] = Len(CacheDocument(live[r]))
    /\ Return(r, live[r])
    /\ UNCHANGED <<now, ticks, cache_file, use_cache, connection, live,
                   cache_read, offset>>
    /\ UNCHANGED <<genVars, filterVars>>
    /\ UNCHANGED unitVars

CacheNext ==
    \/ Tick
    \/ \E r \in Runs : CheckCache(r)
    \/ \E r \in Runs : Connect(r)
    \/ \E r \in Runs : LiveFetch(r)
    \/ \E r \in Runs : OpenCacheFile(r)
    \/ \E r \in Runs : WriteChunk(r)
    \/ \E r \in Runs : CloseCacheFile(r)

SpecCache == CacheInit /\ [][CacheNext]_vars

\* =================================================================
\* Single functions
\* =================================================================
\* The generator's own state while one of its functions is looked into.
GeneratorIdle ==
    /\ mode = "single" /\ smart = FALSE /\ drive = FALSE
    /\ pc = "call"
    /\ i = 0
    /\ result = NoResult
    /\ all_newsletters = <<>>
    /\ newsletters = <<>>
    /\ script = None
    /\ generated_audio = None
    /\ uploaded_url = None
    /\ drive_file_id = None
    /\ conn = [s \in Sources |-> "none"]
    /\ fetched = [s \in Sources |-> [kind |-> "pending", items |-> <<>>]]
    /\ disconnects = [s \in Sources |-> 0]
    /\ swallowed = 0
    /\ calls = [c \in Stages |-> 0]
    /\ CalledWithDefaults

\* A str is the sequence of its characters' code points: "A" 65, "a" 97,
\* "b" 98, " " 32.
RECURSIVE StrLess(_, _)
StrLess(a, b) ==
    IF b = <<>> THEN FALSE
    ELSE IF a = <<>> THEN TRUE
    ELSE IF Head(a) # Head(b) THEN Head(a) < Head(b)
    ELSE StrLess(Tail(a), Tail(b))

\* sorted(newsletter_filters)
InsertSorted(sorted, x) ==
    LET k == Cardinality({j \in 1..Len(sorted) : ~StrLess(x, sorted[j])})
    IN SubSeq(sorted, 1, k) \o <<x>> \o SubSeq(sorted, k + 1, Len(sorted))
Sorted_AsGiven(list) == list
RECURSIVE Sorted(_)
Sorted(list) ==
    IF list = <<>> THEN <<>>
    ELSE InsertSorted(Sorted(SubSeq(list, 1, Len(list) - 1)), list[Len(list)])

\* `x if newsletter_filters else y`: None and [] are both false.
Truthy(filters) == filters.given /\ filters.list # <<>>

\* json.dumps(key_data, sort_keys=True): the pairs in the order of their keys.
KeyStr(self, hours_lookback, folder, newsletter_filters) ==
    << <<"email", self.email_address>>,
       <<"filters", IF Truthy(newsletter_filters)
                    THEN Sorted(newsletter_filters.list) ELSE <<>> >>,
       <<"folder", folder>>,
       <<"hours", hours_lookback>> >>

\* hashlib.md5(key_str.encode()).hexdigest()[:12]: a value the string alone
\* decides (two strings with one digest are not told apart from one string).
Md5Prefix(key_str) == [md5 |-> key_str]

\* _generate_cache_key
GenerateCacheKey(self, hours_lookback, folder, newsletter_filters) ==
    Md5Prefix(KeyStr(self, hours_lookback, folder, newsletter_filters))

\* The keyword lists a caller passes: none, the empty one, one term, two terms
\* in either order (terms "A", "a b", "b").
FilterTerms == {<<65>>, <<97, 32, 98>>, <<98>>}
FilterLists ==
    {NoFilters}
        \cup {[given |-> TRUE, list |-> l] :
                 l \in {list \in UNION {[1..k -> FilterTerms] : k \in 0..2} :
                           \A a, b \in 1..Len(list) : list[a] = list[b] => a = b}}

\* Two EmailService objects, each called with its own parameters.
KeyInit ==
    /\ GeneratorIdle
    /\ FilterIdle
    /\ CacheIdle
    /\ service \in [Runs -> [email_address : {<<97>>, <<98>>},
                             imap_server : {<<97>>, <<98>>}]]
    /\ request \in [Runs -> [hours_lookback : {24, 48},
                             folder : {<<65>>},
                             newsletter_filters : FilterLists]]
    /\ cache_key = [r \in Runs |-> NoKey]
    /\ ScanIdle
    /\ CallIdle
    /\ VoiceIdle
    /\ OracleIdle
    /\ EnvIdle

\* cache_key = self._generate_cache_key(hours_lookback, folder, newsletter_filters)
ComputeCacheKey(r) ==
    /\ cache_key[r] = NoKey
    /\ cache_key' = [cache_key EXCEPT ![r] =
           GenerateCacheKey(service[r], request[r].hours_lookback,
                            request[r].folder, request[r].newsletter_filters)]
    /\ UNCHANGED <<service, request>>
    /\ UNCHANGED <<genVars, filterVars, cacheVars, scan, call, voice, oracle, envVars>>

KeyNext == \E r \in Runs : ComputeCacheKey(r)

SpecKey == KeyInit /\ [][KeyNext]_vars

\* ------------------------------------------- the keyword filter of a fetch
\* str.lower() on the letters used here.
Lower_AsIs(str) == str
Lower(str) ==
    [k \in 1..Len(str) |-> IF str[k] \in 65..90 THEN str[k] + 32 ELSE str[k]]

\* `a in b` of two str.
Contains(b, a) ==
    \E k \in 0..(Len(b) - Len(a)) : SubSeq(b, k + 1, k + Len(a)) = a

\* _is_newsletter
IsNewsletter(subject, sender, filters) ==
    LET combined == Lower(subject \o <<32>> \o sender)
    IN \E k \in 1..Len(filters) : Contains(combined, Lower(filters[k]))

\* What the search of the time window finds: messages with subjects "A",
\* "a", "b" or "" from senders "b" or "A", no message twice.
Found == [subject : {<<65>>, <<97>>, <<98>>, <<>>}, sender : {<<98>>, <<65>>}]
SearchResults ==
    {list \in UNION {[1..k -> Found] : k \in 0..2} :
        \A a, b \in 1..Len(list) : list[a] = list[b] => a = b}

ScanInit ==
    /\ GeneratorIdle
    /\ FilterIdle
    /\ CacheIdle
    /\ KeyIdle
    /\ CallIdle
    /\ VoiceIdle
    /\ OracleIdle
    /\ EnvIdle
    /\ \E list \in SearchResults, filters \in FilterLists :
          scan = [pc |-> "loop", messages |-> list, newsletter_filters |-> filters,
                  next |-> 1, newsletters |-> <<>>]

\* Lines 135-136: the message is passed over.
Skipped(message, newsletter_filters) ==
    /\ Truthy(newsletter_filters)
    /\ ~IsNewsletter(message.subject, message.sender, newsletter_filters.list)

\* One turn of `for email_id in email_ids`.
ScanEmail ==
    /\ scan.pc = "loop"
    /\ scan.next <= Len(scan.messages)
    /\ LET message == scan.messages[scan.next]
       IN scan' = [scan EXCEPT
              !.next = @ + 1,
              !.newsletters = IF Skipped(message, scan.newsletter_filters)
                              THEN @ ELSE Append(@, message)]
    /\ UNCHANGED <<genVars, filterVars, cacheVars, keyVars, call, voice, oracle, envVars>>

\* The loop is through: the newsletters are returned.
ScanReturn ==
    /\ scan.pc = "loop"
    /\ scan.next > Len(scan.messages)
    /\ scan' = [scan EXCEPT !.pc = "returned"]
    /\ UNCHANGED <<genVars, filterVars, cacheVars, keyVars, call, voice, oracle, envVars>>

\* An IMAP or decoding error in a turn of the loop: `except Exception` returns [].
ScanFails ==
    /\ scan.pc = "loop"
    /\ scan.next <= Len(scan.messages)
    /\ scan' = [scan EXCEPT !.pc = "failed", !.newsletters = <<>>]
    /\ UNCHANGED <<genVars, filterVars, cacheVars, keyVars, call, voice, oracle, envVars>>

ScanNext == ScanEmail \/ ScanReturn \/ ScanFails

SpecScan == ScanInit /\ [][ScanNext]_vars

\* ------------------------------- the keyword filters of generate_podcast
\* str.split(): the words between the blanks.
RECURSIVE Split(_)
Split(str) ==
    IF str = <<>> THEN <<>>
    ELSE IF Head(str) = 32 THEN Split(Tail(str))
    ELSE LET blanks == {k \in 1..Len(str) : str[k] = 32}
             end == IF blanks = {} THEN Len(str) + 1
                    ELSE CHOOSE k \in blanks : \A j \in blanks : k <= j
         IN <<SubSeq(str, 1, end - 1)>> \o Split(SubSeq(str, end, Len(str)))

\* "newsletter", "weekly", "daily", "digest", "update", "news"
newsletter_indicators ==
    << <<110, 101, 119, 115, 108, 101, 116, 116, 101, 114>>,
       <<119, 101, 101, 107, 108, 121>>,
       <<100, 97, 105, 108, 121>>,
       <<100, 105, 103, 101, 115, 116>>,
       <<117, 112, 100, 97, 116, 101>>,
       <<110, 101, 119, 115>> >>

\* set(all_keywords + newsletter_indicators)
SimpleFilterSet(user_role, interests) ==
    LET role_keywords == Split(Lower(user_role))
        all_keywords == role_keywords \o [k \in 1..Len(interests) |-> Lower(interests[k])]
    IN Range(all_keywords \o newsletter_indicators)

\* list(a_set): the elements once each, in the order the set has them.
RECURSIVE ListsOf(_)
ListsOf(set) ==
    IF set = {} THEN {<<>>}
    ELSE UNION {{<<x>> \o rest : rest \in ListsOf(set \ {x})} : x \in set}

\* The test of line 141: `self.newsletter_filter and not newsletter_filters`
\* (self.newsletter_filter is set exactly if filter_mode is "smart").
UseSimpleFilters_WheneverSmart(is_smart, newsletter_filters) == is_smart
UseSimpleFilters(is_smart, newsletter_filters) ==
    is_smart /\ ~Truthy(newsletter_filters)

\* A generator with a profile (user_role "A A" or " ", interests [] or ["A"]),
\* called with a keyword list or none.
CallInit ==
    /\ GeneratorIdle
    /\ FilterIdle
    /\ CacheIdle
    /\ KeyIdle
    /\ ScanIdle
    /\ VoiceIdle
    /\ OracleIdle
    /\ EnvIdle
    /\ \E is_smart \in BOOLEAN, role \in {<<65, 32, 65>>, <<32>>},
          wanted \in {<<>>, << <<65>> >>}, filters \in FilterLists :
          call = [pc |-> "loop", smart |-> is_smart, user_role |-> role,
                  interests |-> wanted, newsletter_filters |-> filters,
                  set_order |-> NoFilters, i |-> 1, passed |-> <<>>]

\* Lines 139-154 of one turn of the loop over the sources: simple_filters is
\* made and fetch_newsletters is called with it. The list made of the set has
\* the order this process gives that set, the same at every turn.
PassFilters ==
    /\ call.pc = "loop"
    /\ call.i <= NumSources
    /\ IF UseSimpleFilters(call.smart, call.newsletter_filters)
       THEN \E list \in IF call.set_order.given THEN {call.set_order.list}
                         ELSE ListsOf(SimpleFilterSet(call.user_role, call.interests)) :
               /\ call' = [call EXCEPT
                      !.set_order = [given |-> TRUE, list |-> list],
                      !.passed = Append(@, [given |-> TRUE, list |-> list]),
                      !.i = @ + 1]
       ELSE call' = [call EXCEPT
                !.passed = Append(@, call.newsletter_filters),
                !.i = @ + 1]
    /\ UNCHANGED <<genVars, filterVars, cacheVars, keyVars, scan, voice, oracle, envVars>>

\* The loop over the sources is through.
PassDone ==
    /\ call.pc = "loop"
    /\ call.i > NumSources
    /\ call' = [call EXCEPT !.pc = "fetched"]
    /\ UNCHANGED <<genVars, filterVars, cacheVars, keyVars, scan, voice, oracle, envVars>>

CallNext == PassFilters \/ PassDone

SpecCall == CallInit /\ [][CallNext]_vars

\* ------------------------------ VoiceService.generate_podcast_with_segments
\* The audio file of the k-th segment, and the combined file.
SegmentFile(k) == [name |-> "segment", n |-> k]
CombinedFile == [name |-> "complete_podcast", n |-> 0]

\* `if combine and audio_files and len(audio_files) > 1`
ShouldCombine(combine, audio_files) ==
    combine /\ audio_files # <<>> /\ Len(audio_files) > 1

\* What to return once _combine_audio_files has answered.
AfterCombine_Nothing(ok, audio_files) == IF ok THEN <<CombinedFile>> ELSE <<>>
AfterCombine(ok, audio_files) == IF ok THEN <<CombinedFile>> ELSE audio_files

\* A call with 0..MaxSegments segments, with or without combine.
VoiceInit ==
    /\ GeneratorIdle
    /\ FilterIdle
    /\ CacheIdle
    /\ KeyIdle
    /\ ScanIdle
    /\ CallIdle
    /\ OracleIdle
    /\ EnvIdle
    /\ \E n \in 0..MaxSegments, combine \in BOOLEAN :
          voice = [pc |-> "call", segments |-> n, combine |-> combine, i |-> 0,
                   made |-> <<>>, audio_files |-> <<>>, combined |-> "no",
                   returned |-> <<>>]

\* os.makedirs(output_dir, exist_ok=True); audio_files = []: the directory is
\* there, or the error leaves the method.
EnterSegments ==
    /\ voice.pc = "call"
    /\ \E next \in {"loop", "raised"} : voice' = [voice EXCEPT !.pc = next]
    /\ UNCHANGED <<genVars, filterVars, cacheVars, keyVars, scan, call, oracle, envVars>>

\* One turn of `for i, segment in enumerate(segments)`: text_to_speech returns
\* the segment's path, or None.
SpeakSegment ==
    /\ voice.pc = "loop"
    /\ voice.i < voice.segments
    /\ \E ok \in BOOLEAN :
          voice' = [voice EXCEPT
              !.i = @ + 1,
              !.made = Append(@, ok),
              !.audio_files = IF ok THEN Append(@, SegmentFile(voice.i + 1)) ELSE @]
    /\ UNCHANGED <<genVars, filterVars, cacheVars, keyVars, scan, call, oracle, envVars>>

\* After the loop: _combine_audio_files is called if the test says so, and
\* returns True, or False after any error of the file list or of ffmpeg.
CombineAndReturn ==
    /\ voice.pc = "loop"
    /\ voice.i = voice.segments
    /\ IF ShouldCombine(voice.combine, voice.audio_files)
       THEN \E ok \in BOOLEAN :
               voice' = [voice EXCEPT
                   !.pc = "returned",
                   !.combined = IF ok THEN "done" ELSE "failed",
                   !.returned = AfterCombine(ok, voice.audio_files)]
       ELSE voice' = [voice EXCEPT !.pc = "returned", !.returned = voice.audio_files]
    /\ UNCHANGED <<genVars, filterVars, cacheVars, keyVars, scan, call, oracle, envVars>>

VoiceNext == EnterSegments \/ SpeakSegment \/ CombineAndReturn

SpecVoice == VoiceInit /\ [][VoiceNext]_vars

\* ------------------------------ NewsletterFilter._filter_single_newsletter
\* A response of the oracle is the sequence of its words.  "{" and "}" are
\* the braces; "is_relevant:" and "relevance_score:" stand for the quoted keys
\* with their colon (and the comma before them); "true", "false", "null", the
\* numbers and the quoted "'high'" are JSON's scalars; the other words are prose.
JsonKeys == {"is_relevant:", "relevance_score:"}
JsonScalars == {"true", "false", "null", "0.7", "7", "-1", "'high'"}

\* A JSON object, by its members in the order read.
Object(members) == [kind |-> "object", tok |-> "", members |-> members]

\* The brace-counting loop of lines 169-176 from position k on, with
\* brace_count braces open: the position of the closing brace that brings the
\* count to zero, 0 if there is none.
MatchingBrace_Last(text, k, brace_count) ==
    LET closing == {j \in k..Len(text) : text[j] = "}"}
    IN IF closing = {} THEN 0 ELSE CHOOSE j \in closing : \A q \in closing : q <= j

RECURSIVE MatchingBrace(_, _, _)
MatchingBrace(text, k, brace_count) ==
    IF k > Len(text) THEN 0
    ELSE LET count == CASE text[k] = "{" -> brace_count + 1
                        [] text[k] = "}" -> brace_count - 1
                        [] OTHER -> brace_count
         IN IF text[k] = "}" /\ count = 0 THEN k
            ELSE MatchingBrace(text, k + 1, count)

\* Lines 161-181: json_str, the span from the first "{" to its matching "}",
\* or the whole text when there is no such span.
ExtractJson(result_text) ==
    IF "{" \in Range(result_text) /\ "}" \in Range(result_text)
    THEN LET start_idx == CHOOSE k \in 1..Len(result_text) :
                              /\ result_text[k] = "{"
                              /\ \A j \in 1..(k - 1) : result_text[j] # "{"
             last == MatchingBrace(result_text, start_idx, 0)
         IN IF last > 0 THEN SubSeq(result_text, start_idx, last) ELSE result_text
    ELSE result_text

\* json.loads: a value is a scalar or an object; an object is "{", members
\* (a key and a value each), "}".  NotJson is the JSONDecodeError.
NotJson == [ok |-> FALSE, value |-> Scalar("null"), rest |-> <<>>]
RECURSIVE ParseValue(_), ParseMembers(_, _)
ParseValue(text) ==
    IF text = <<>> THEN NotJson
    ELSE IF Head(text) = "{" THEN ParseMembers(Tail(text), <<>>)
    ELSE IF Head(text) \in JsonScalars
         THEN [ok |-> TRUE, value |-> Scalar(Head(text)), rest |-> Tail(text)]
    ELSE NotJson
ParseMembers(text, members) ==
    IF text = <<>> THEN NotJson
    ELSE IF Head(text) = "}"
         THEN [ok |-> TRUE, value |-> Object(members), rest |-> Tail(text)]
    ELSE IF Head(text) \in JsonKeys
         THEN LET v == ParseValue(Tail(text))
              IN IF v.ok
                 THEN ParseMembers(v.rest,
                          Append(members, [key |-> Head(text), value |-> v.value]))
                 ELSE NotJson
    ELSE NotJson
JsonLoads(json_str) ==
    LET v == ParseValue(json_str)
    IN IF v.ok /\ v.rest = <<>> THEN v ELSE NotJson

\* result_data.get(key, default): of members with one key the last counts.
Get(result_data, key, default) ==
    LET at == {k \in 1..Len(result_data.members) : result_data.members[k].key = key}
    IN IF at = {} THEN default
       ELSE result_data.members[CHOOSE k \in at : \A j \in at : j <= k].value

\* float(x), in tenths; ok is FALSE for the ValueError of a string that is no
\* number and the TypeError of null and of an object.
Float(x) ==
    IF x.kind = "object" THEN [ok |-> FALSE, tenths |-> 0]
    ELSE CASE x.tok = "true" -> [ok |-> TRUE, tenths |-> 10]
           [] x.tok = "false" -> [ok |-> TRUE, tenths |-> 0]
           [] x.tok = "0.0" -> [ok |-> TRUE, tenths |-> 0]
           [] x.tok = "0.7" -> [ok |-> TRUE, tenths |-> 7]
           [] x.tok = "7" -> [ok |-> TRUE, tenths |-> 70]
           [] x.tok = "-1" -> [ok |-> TRUE, tenths |-> -10]
           [] OTHER -> [ok |-> FALSE, tenths |-> 0]

\* `if x`: the truth of a value.
Truth(x) ==
    IF x.kind = "object" THEN x.members # <<>>
    ELSE x.tok \notin {"false", "null", "0.0"}

\* Line 196: "true" in result_text.lower() and "is_relevant" in result_text.
TextSaysRelevant(result_text) ==
    /\ \E k \in 1..Len(result_text) : result_text[k] \in {"true", "True"}
    /\ \E k \in 1..Len(result_text) : result_text[k] \in {"is_relevant:", "is_relevant"}

\* relevance_score=0.5 if is_relevant else 0.0
TextScore_Half(is_relevant) == FallbackScore
TextScore(is_relevant) == IF is_relevant THEN FallbackScore ELSE 0

\* Lines 192-202: the FilterResult after a JSONDecodeError.
TextAnalysisResult(result_text) ==
    LET is_relevant == TextSaysRelevant(result_text)
    IN [is_relevant |-> Scalar(IF is_relevant THEN "true" ELSE "false"),
        relevance_score |-> TextScore(is_relevant),
        reason |-> "JSON parse error - decision based on text analysis"]

\* relevance_score=float(result_data.get("relevance_score", 0.0))
Score(x) == Float(x)

\* Lines 184-191: the FilterResult of a parsed object.
ParsedResult_DefaultRelevant(result_data) ==
    [is_relevant |-> Get(result_data, "is_relevant:", Scalar("true")),
     relevance_score |-> Score(Get(result_data, "relevance_score:", Scalar("0.0"))).tenths,
     reason |-> "verdict"]

ParsedResult(result_data) ==
    [is_relevant |-> Get(result_data, "is_relevant:", Scalar("false")),
     relevance_score |-> Score(Get(result_data, "relevance_score:", Scalar("0.0"))).tenths,
     reason |-> "verdict"]

\* The error_result of filter_newsletters_parallel, as a verdict.
ErrorVerdict ==
    [is_relevant |-> Scalar("true"), relevance_score |-> error_result.relevance_score,
     reason |-> error_result.reason]

\* The responses looked into: an object with or without is_relevant and
\* relevance_score, a broken object, a scalar, prose or nothing, each alone,
\* after a word of prose or a stray "}", before a word of prose or a stray "}".
Bodies ==
    {<<"{">> \o rel \o num \o <<"}">> :
        rel \in {<<>>, <<"is_relevant:", "true">>, <<"is_relevant:", "false">>},
        num \in {<<>>} \cup {<<"relevance_score:", n>> : n \in {"0.7", "7", "-1", "'high'"}}}
    \cup { <<"{", "is_relevant:", "true">>,
           <<"{", "is_relevant:", "}">>,
           <<"{", "Sure", "}">>,
           <<"{", "is_relevant:", "True", "}">>,
           <<"{", "is_relevant:", "true", "relevance_score:", "{", "}", "}">>,
           <<"{", "is_relevant:", "false", "is_relevant:", "true", "}">>,
           <<"true">>, <<"0.7">>, <<"Sure">>, <<"is_relevant", "True">>, <<>> }
Responses ==
    {before \o body \o after :
        before \in {<<>>, <<"Sure">>, <<"}">>}, body \in Bodies,
        after \in {<<>>, <<"Sure">>, <<"}">>}}

OracleInit ==
    /\ GeneratorIdle
    /\ FilterIdle
    /\ CacheIdle
    /\ KeyIdle
    /\ ScanIdle
    /\ CallIdle
    /\ VoiceIdle
    /\ EnvIdle
    /\ \E text \in Responses :
          oracle = [pc |-> "call", result_text |-> text, json_str |-> <<>>,
                    result |-> NoVerdict, error |-> None, verdict |-> NoVerdict]

\* self.client.messages.create(...): the response arrives, or the call raises.
CallOracle ==
    /\ oracle.pc = "call"
    /\ \/ oracle' = [oracle EXCEPT !.pc = "extract"]
       \/ oracle' = [oracle EXCEPT !.pc = "raised", !.error = "APIError"]
    /\ UNCHANGED <<genVars, filterVars, cacheVars, keyVars, scan, call, voice, envVars>>

\* Lines 161-181.
TakeJson ==
    /\ oracle.pc = "extract"
    /\ oracle' = [oracle EXCEPT !.pc = "parse",
                                !.json_str = ExtractJson(oracle.result_text)]
    /\ UNCHANGED <<genVars, filterVars, cacheVars, keyVars, scan, call, voice, envVars>>

\* Lines 183-206: json.loads and the FilterResult.  A value that is no object
\* has no get (AttributeError), and float may raise: `except Exception: raise`.
ParseVerdict ==
    /\ oracle.pc = "parse"
    /\ LET loaded == JsonLoads(oracle.json_str)
           result_data == loaded.value
       IN IF ~loaded.ok
          THEN oracle' = [oracle EXCEPT !.pc = "returned",
                              !.result = TextAnalysisResult(oracle.result_text)]
          ELSE IF result_data.kind # "object"
               THEN oracle' = [oracle EXCEPT !.pc = "raised",
                                             !.error = "AttributeError"]
          ELSE IF ~Score(Get(result_data, "relevance_score:", Scalar("0.0"))).ok
               THEN oracle' = [oracle EXCEPT !.pc = "raised",
                                             !.error = "ValueError"]
               ELSE oracle' = [oracle EXCEPT !.pc = "returned",
                                   !.result = ParsedResult(result_data)]
    /\ UNCHANGED <<genVars, filterVars, cacheVars, keyVars, scan, call, voice, envVars>>

\* filter_newsletters_parallel, lines 76-91: future.result() gives the
\* FilterResult, or raises and the error_result takes its place.
TakeVerdict ==
    /\ oracle.pc \in {"returned", "raised"}
    /\ oracle' = [oracle EXCEPT
           !.pc = IF oracle.pc = "returned" THEN "judged" ELSE "judged_error",
           !.verdict = IF oracle.pc = "returned" THEN oracle.result ELSE ErrorVerdict]
    /\ UNCHANGED <<genVars, filterVars, cacheVars, keyVars, scan, call, voice, envVars>>

OracleNext == CallOracle \/ TakeJson \/ ParseVerdict \/ TakeVerdict

SpecOracle == OracleInit /\ [][OracleNext]_vars

\* ------------------------------------------ the life of an EmailService
\* SpecConn: one EmailService object and the calls made on it, one after the
\* other (connect, fetch_newsletters on a cache miss, disconnect), against a
\* mail server that is reachable or not and accepts the password or not, and
\* a socket that may die at any time.  imap.connection is None or the state
\* of the imaplib.IMAP4_SSL object self.connection refers to.

\* The states of an IMAP4 object (imaplib).
ImapStates == {"NONAUTH", "AUTH", "SELECTED", "LOGOUT"}

\* What an except clause that passes lets out of its try block: nothing.
ExceptPass_Reraise(error) == error

ExceptPass(error) == FALSE

\* self.connection.close(): legal in state SELECTED only; its finally clause
\* sets the state to AUTH whether or not the command went through.
Close(state, broken) ==
    IF state = "SELECTED"
    THEN [state |-> "AUTH", error |-> broken]
    ELSE [state |-> state, error |-> TRUE]

\* self.connection.logout(): sets the state first, then talks to the server.
Logout(state, broken) == [state |-> "LOGOUT", error |-> broken]

\* self.connection.select(folder): legal in AUTH and SELECTED.
Select(state, broken) ==
    IF state \in {"AUTH", "SELECTED"} /\ ~broken
    THEN [state |-> "SELECTED", error |-> FALSE]
    ELSE [state |-> state, error |-> TRUE]

\* EmailService.connect(): IMAP4_SSL(...) raises before self.connection is
\* assigned when the server cannot be reached; login raises after it.
ConnectResult(state, broken, reachable, password_ok) ==
    IF ~reachable
    THEN [connection |-> state, broken |-> broken, returned |-> FALSE]
    ELSE IF ~password_ok
    THEN [connection |-> "NONAUTH", broken |-> FALSE, returned |-> FALSE]
    ELSE [connection |-> "AUTH", broken |-> FALSE, returned |-> TRUE]

\* The try block of disconnect(): close(), then logout() unless close raised.
DisconnectResult(state, broken) ==
    IF state = None
    THEN [connection |-> None, error |-> FALSE]
    ELSE LET closed == Close(state, broken)
         IN  IF closed.error
             THEN [connection |-> closed.state, error |-> TRUE]
             ELSE LET out == Logout(closed.state, broken)
                  IN  [connection |-> out.state, error |-> out.error]

\* One entry of the history of calls on the object.
Entry(op, after, connected, raised, value) ==
    [op |-> op, before |-> [connection |-> imap.connection, broken |-> imap.broken],
     after |-> after, connected |-> connected, raised |-> raised,
     returned |-> value]

ConnInit ==
    /\ \E reachable \in BOOLEAN, password_ok \in BOOLEAN :
         imap = [pc |-> "ready", connection |-> None, broken |-> FALSE,
                 reachable |-> reachable, password_ok |-> password_ok,
                 log |-> <<>>]
    /\ DiskIdle
    /\ KeyIdle
    /\ ScanIdle
    /\ CallIdle
    /\ VoiceIdle
    /\ OracleIdle
    /\ GeneratorIdle
    /\ FilterIdle
    /\ CacheIdle

ConnFrame == UNCHANGED <<genVars, filterVars, cacheVars, keyVars, scan, call,
                         voice, oracle, disk>>

\* The object may be called again.
MoreCalls == imap.pc = "ready" /\ Len(imap.log) < MaxCalls

\* EmailService.connect()
ConnectCall ==
    /\ MoreCalls
    /\ LET c == ConnectResult(imap.connection, imap.broken, imap.reachable,
                              imap.password_ok)
           after == [connection |-> c.connection, broken |-> c.broken]
       IN  imap' = [imap EXCEPT
                      !.connection = c.connection,
                      !.broken = c.broken,
                      !.log = Append(@, Entry("connect", after, imap.reachable,
                                              FALSE, IF c.returned THEN "True"
                                                     ELSE "False"))]
    /\ ConnFrame

\* EmailService.fetch_newsletters past its cache block (no usable cache
\* file): connect if self.connection is falsy, then select, search and read;
\* any error after the connect is logged and [] is returned.
FetchCall ==
    /\ MoreCalls
    /\ LET connects == imap.connection = None
           c == IF connects
                THEN ConnectResult(imap.connection, imap.broken, imap.reachable,
                                   imap.password_ok)
                ELSE [connection |-> imap.connection, broken |-> imap.broken,
                      returned |-> TRUE]
       IN  IF ~c.returned
           THEN imap' = [imap EXCEPT
                           !.connection = c.connection,
                           !.broken = c.broken,
                           !.log = Append(@, Entry("fetch",
                                     [connection |-> c.connection,
                                      broken |-> c.broken],
                                     connects /\ imap.reachable, FALSE, "[]"))]
           ELSE LET sel == Select(c.connection, c.broken)
                IN  \E dies \in BOOLEAN :
                      \* the socket may die between select and the last read
                      /\ dies => ~sel.error
                      /\ LET after == [connection |-> sel.state,
                                       broken |-> c.broken \/ dies]
                         IN  imap' = [imap EXCEPT
                                 !.connection = after.connection,
                                 !.broken = after.broken,
                                 !.log = Append(@, Entry("fetch", after,
                                           connects /\ imap.reachable, FALSE,
                                           IF sel.error \/ dies THEN "[]"
                                           ELSE "newsletters"))]
    /\ ConnFrame

\* EmailService.disconnect()
DisconnectCall ==
    /\ MoreCalls
    /\ LET d == DisconnectResult(imap.connection, imap.broken)
           after == [connection |-> d.connection, broken |-> imap.broken]
       IN  imap' = [imap EXCEPT
                      !.connection = d.connection,
                      !.log = Append(@, Entry("disconnect", after, FALSE,
                                              ExceptPass(d.error), None))]
    /\ ConnFrame

\* The socket of the connection dies (the server drops it, the network goes).
SocketBreaks ==
    /\ imap.pc = "ready"
    /\ imap.connection \in ImapStates \ {"LOGOUT"}
    /\ ~imap.broken
    /\ imap' = [imap EXCEPT !.broken = TRUE]
    /\ ConnFrame

ConnNext == ConnectCall \/ FetchCall \/ DisconnectCall \/ SocketBreaks

SpecConn == ConnInit /\ [][ConnNext]_vars

\* ------------------------------------------ the files of concurrent runs
\* SpecShare: two runs that execute at the same time with one working
\* directory (two processes, or two threads of one), each a generate_podcast
\* from its script on or a generate_podcast_with_segments,
\* in an output directory of its own or in the same one.  disk.files holds,
\* for every file there is, which run wrote it last; disk.now is the clock in
\* seconds, which is all of datetime.now() that goes into a file name.

\* output_dir: the server passes f"output/{user_id}".
OutputDirs == {"output/1", "output/2"}

\* os.path.join(output_dir, f"podcast_script_{...strftime('%Y%m%d_%H%M%S')}.txt")
ScriptPath(output_dir, t) == [dir |-> output_dir, name |-> "podcast_script", n |-> t]

\* os.path.join(output_dir, f"podcast_{...strftime('%Y%m%d_%H%M%S')}.mp3")
AudioPath(output_dir, t) == [dir |-> output_dir, name |-> "podcast", n |-> t]

\* os.path.join(output_dir, f"segment_{i+1}.mp3") and "complete_podcast.mp3"
SegmentPath(output_dir, k) == [dir |-> output_dir] @@ SegmentFile(k)
CombinedPath(output_dir) == [dir |-> output_dir] @@ CombinedFile

\* list_file = "filelist.txt", in the working directory of the process.
ListFile == [dir |-> ".", name |-> "filelist.txt", n |-> 0]

\* The run that wrote the file at path last, None if there is no such file.
WriterOf(path) ==
    IF \E f \in disk.files : f.path = path
    THEN (CHOOSE f \in disk.files : f.path = path).writer
    ELSE None

\* open(path, "w"): the file is created or emptied, and written by run r.
Written(path, r) ==
    {f \in disk.files : f.path # path} \cup {[path |-> path, writer |-> r]}

\* What a run remembers of its call: its paths, and for the record whether it
\* wrote over a file of the other run or read one.
NewRun(kind, output_dir) ==
    [kind |-> kind, output_dir |-> output_dir,
     pc |-> IF kind = "single" THEN "script" ELSE "segment",
     i |-> 0, generated_audio |-> None, overwrote |-> FALSE, read |-> None]

ShareInit ==
    /\ \E kind \in [Runs -> {"single", "segments"}], dir \in [Runs -> OutputDirs] :
          disk = [pc |-> "ready", now |-> 0, files |-> {},
                  run |-> [r \in Runs |-> NewRun(kind[r], dir[r])]]
    /\ ImapIdle
    /\ KeyIdle
    /\ ScanIdle
    /\ CallIdle
    /\ VoiceIdle
    /\ OracleIdle
    /\ GeneratorIdle
    /\ FilterIdle
    /\ CacheIdle

ShareFrame == UNCHANGED <<genVars, filterVars, cacheVars, keyVars, scan, call,
                          voice, oracle, imap>>

\* Run r writes the file at path and goes on at next.
WriteFile(r, path, next) ==
    disk' = [disk EXCEPT
               !.files = Written(path, r),
               !.run[r].pc = next,
               !.run[r].overwrote = @ \/ WriterOf(path) \notin {None, r}]

\* A second passes.
ClockTick ==
    /\ disk.pc = "ready"
    /\ disk.now < MaxSeconds
    /\ disk' = [disk EXCEPT !.now = @ + 1]
    /\ ShareFrame

\* with open(script_path, "w") as f: f.write(script)
SaveScript(r) ==
    /\ disk.pc = "ready" /\ disk.run[r].pc = "script"
    /\ WriteFile(r, ScriptPath(disk.run[r].output_dir, disk.now), "audio")
    /\ ShareFrame

\* text_to_speech(text=script, output_path=audio_path): the file is written,
\* or the call fails and generate_podcast returns.
TextToSpeech(r) ==
    /\ disk.pc = "ready" /\ disk.run[r].pc = "audio"
    /\ LET audio_path == AudioPath(disk.run[r].output_dir, disk.now)
       IN \/ disk' = [disk EXCEPT
                        !.files = Written(audio_path, r),
                        !.run[r].pc = "upload",
                        !.run[r].generated_audio = audio_path,
                        !.run[r].overwrote = @ \/ WriterOf(audio_path) \notin {None, r}]
          \/ disk' = [disk EXCEPT !.run[r].pc = "done"]
    /\ ShareFrame

\* storage_service.upload_audio(file_path=generated_audio, ...) reads the file.
ReadAudio(r) ==
    /\ disk.pc = "ready" /\ disk.run[r].pc = "upload"
    /\ disk' = [disk EXCEPT
                  !.run[r].pc = "done",
                  !.run[r].read = WriterOf(disk.run[r].generated_audio)]
    /\ ShareFrame

\* One turn of the loop over segments: text_to_speech writes segment_{i+1}.mp3.
WriteSegment(r) ==
    /\ disk.pc = "ready" /\ disk.run[r].pc = "segment"
    /\ LET k == disk.run[r].i + 1
           path == SegmentPath(disk.run[r].output_dir, k)
       IN disk' = [disk EXCEPT
                     !.files = Written(path, r),
                     !.run[r].i = k,
                     !.run[r].pc = IF k = RunSegments THEN "list" ELSE "segment",
                     !.run[r].overwrote = @ \/ WriterOf(path) \notin {None, r}]
    /\ ShareFrame

\* _combine_audio_files: with open(list_file, "w") as f: ...
WriteFileList(r) ==
    /\ disk.pc = "ready" /\ disk.run[r].pc = "list"
    /\ WriteFile(r, ListFile, "ffmpeg")
    /\ ShareFrame

\* subprocess.run(ffmpeg ... -i list_file ... output_file): ffmpeg reads the
\* list and writes the combined file; without the list it fails, and
\* _combine_audio_files returns False.
RunFfmpeg(r) ==
    /\ disk.pc = "ready" /\ disk.run[r].pc = "ffmpeg"
    /\ LET output_file == CombinedPath(disk.run[r].output_dir)
       IN IF WriterOf(ListFile) = None
          THEN disk' = [disk EXCEPT !.run[r].pc = "done",
                                    !.run[r].read = "missing"]
          ELSE disk' = [disk EXCEPT
                          !.files = Written(output_file, r),
                          !.run[r].pc = "remove",
                          !.run[r].read = WriterOf(ListFile),
                          !.run[r].overwrote =
                              @ \/ WriterOf(output_file) \notin {None, r}]
    /\ ShareFrame

\* os.remove(list_file); FileNotFoundError is caught like any other error.
RemoveFileList(r) ==
    /\ disk.pc = "ready" /\ disk.run[r].pc = "remove"
    /\ disk' = [disk EXCEPT
                  !.files = {f \in disk.files : f.path # ListFile},
                  !.run[r].pc = "done",
                  !.run[r].overwrote = @ \/ WriterOf(ListFile) \notin {None, r}]
    /\ ShareFrame

ShareNext ==
    \/ ClockTick
    \/ \E r \in Runs : SaveScript(r)
    \/ \E r \in Runs : TextToSpeech(r)
    \/ \E r \in Runs : ReadAudio(r)
    \/ \E r \in Runs : WriteSegment(r)
    \/ \E r \in Runs : WriteFileList(r)
    \/ \E r \in Runs : RunFfmpeg(r)
    \/ \E r \in Runs : RemoveFileList(r)

SpecShare == ShareInit /\ [][ShareNext]_vars

\* =================================================================
\* Properties
\* =================================================================
NoItemsError == Err("No newsletters found in the specified time period", 0)
AudioError == Err("Failed to generate audio", 0)
StorageError == Err("Failed to upload audio to local storage", 0)
DriveError == Err("Failed to upload to Google Drive", 0)

Failed(s) == fetched[s].kind \in {"connect_failed", "fetch_error", "raised"}
Succeeded(s) == fetched[s].kind = "ok"

\* The fetch loop of generate_podcast has ended.
AfterFetch == mode = "single" /\ pc \notin {"call", "raised", "fetch"}

\* The results of the successful accounts among 1..k, in account order.
RECURSIVE SuccessfulResults(_)
SuccessfulResults(k) ==
    IF k = 0 THEN <<>>
    ELSE SuccessfulResults(k - 1) \o
         (IF Succeeded(k) THEN fetched[k].items ELSE <<>>)

RECURSIVE SuccessfulCount(_)
SuccessfulCount(k) ==
    IF k = 0 THEN 0
    ELSE SuccessfulCount(k - 1) + (IF Succeeded(k) THEN Len(fetched[k].items) ELSE 0)

\* C1: in generate_podcast the aggregate is the concatenation of the successful
\* accounts' results, in account order and each in its own order; every account
\* is fetched whatever the earlier ones did; the list handed to the next stage
\* is that aggregate; and without smart filtering newsletters_found is the sum
\* of the successful accounts' counts.
C1_AggregateIsConcatenation ==
    /\ (mode = "single" /\ pc \notin {"call", "raised"}) =>
           all_newsletters = SuccessfulResults(NumSources)
    /\ AfterFetch => \A s \in Sources : fetched[s].kind # "pending"
    /\ (AfterFetch /\ (pc = "filter" \/ (pc = "count" /\ ~smart))) =>
           newsletters = SuccessfulResults(NumSources)
    /\ (AfterFetch /\ ~smart /\ pc = "returned") =>
           result.newsletters_found = SuccessfulCount(NumSources)

\* C1 witness: a run without filtering has returned in which an account failed
\* between two accounts that each returned one message, and found 2.
C1_Witness ==
    /\ AfterFetch /\ ~smart /\ pc = "returned"
    /\ \E a, b, c \in Sources :
          /\ a < b /\ b < c
          /\ Succeeded(a) /\ Len(fetched[a].items) = 1
          /\ Failed(b)
          /\ Succeeded(c) /\ Len(fetched[c].items) = 1
    /\ result.newsletters_found = 2

\* C2: when exactly one account fails (cannot connect, or its fetch raises),
\* errors holds exactly one entry naming that account.
C2_OneFailureOneError ==
    (AfterFetch /\ Cardinality({s \in Sources : Failed(s)}) = 1) =>
        LET f == CHOOSE s \in Sources : Failed(s)
        IN Cardinality({k \in 1..Len(result.errors) :
               result.errors[k] = Err("Failed to fetch from", f)}) = 1

\* C3: when nothing was fetched, with smart filtering off or on, the run appends
\* the no-items error, returns success = false and newsletters_found = 0, and
\* calls neither script, audio, storage nor distribution.
C3_EmptyFetchEndsWithNoItemsError ==
    (AfterFetch /\ all_newsletters = <<>>) =>
        /\ calls["script"] = 0 /\ calls["audio"] = 0
        /\ calls["storage"] = 0 /\ calls["drive"] = 0
        /\ pc = "returned" =>
              /\ NoItemsError \in Range(result.errors)
              /\ ~result.success
              /\ result.newsletters_found = 0

\* text_to_speech was called and returned None.
AudioFailed == mode = "single" /\ calls["audio"] > 0 /\ generated_audio = None

\* C4: once audio synthesis has returned no artifact, success stays false,
\* audio_path stays None, errors holds the audio failure, the run goes to its
\* cleanup, and neither storage nor distribution is ever called.
C4_AudioFailureIsFatal ==
    AudioFailed =>
        /\ ~result.success
        /\ result.audio_path = None
        /\ AudioError \in Range(result.errors)
        /\ calls["storage"] = 0 /\ calls["title"] = 0 /\ calls["drive"] = 0
        /\ pc \in {"cleanup", "disconnect", "returned"}

\* C4 witness: a run in which audio synthesis returned None has returned.
C4_Witness == AudioFailed /\ pc = "returned"

\* upload_audio was called and returned None.
StorageFailed == mode = "single" /\ calls["storage"] > 0 /\ uploaded_url = None

\* C5: once primary storage has returned no reference, success is false,
\* uploaded_url is None, errors holds the storage failure, and the Drive
\* upload is never attempted.
C5_StorageFailureIsFatal ==
    StorageFailed =>
        /\ ~result.success
        /\ result.uploaded_url = None
        /\ StorageError \in Range(result.errors)
        /\ calls["title"] = 0 /\ calls["drive"] = 0
        /\ result.google_drive_id = Absent

\* C5 witness: with Drive configured, a run whose storage returned None has returned.
C5_Witness == StorageFailed /\ drive /\ pc = "returned"

\* upload_podcast was called and returned None.
DriveUploadFailed == mode = "single" /\ calls["drive"] > 0 /\ drive_file_id = None

\* C6: once storage has succeeded and the Drive upload has failed, success is
\* true, uploaded_url is set, errors holds the Drive warning and the result has
\* no google_drive_id; and the Drive step never turns success from true to false.
C6_DriveFailureIsWarning ==
    /\ [](DriveUploadFailed =>
            /\ result.success
            /\ result.uploaded_url \notin {None, Absent}
            /\ DriveError \in Range(result.errors)
            /\ result.google_drive_id = Absent)
    /\ [][(pc = "drive" /\ result.success) => result'.success]_vars

\* C6 witness: a run whose Drive upload failed has returned, successful.
C6_Witness == DriveUploadFailed /\ pc = "returned" /\ result.success

IsSet(v) == v \notin {None, Absent}

\* C7: in generate_podcast, success = true implies newsletters_found > 0 and
\* script_path, audio_path and uploaded_url set; the result is created with
\* success = false; and success never goes from true back to false.
C7_SuccessMeansEveryStage ==
    /\ [](mode = "single" =>
            /\ result.success =>
                  /\ result.newsletters_found > 0
                  /\ IsSet(result.script_path)
                  /\ IsSet(result.audio_path)
                  /\ IsSet(result.uploaded_url)
            /\ pc \in {"call", "fetch"} => ~result.success)
    /\ [][result.success => result'.success]_vars

\* C7 witness: a successful run has returned.
C7_Witness == mode = "single" /\ pc = "returned" /\ result.success

\* C8: every step leaves errors unchanged or appends to its end.
C8_ErrorsAppendOnly == [][IsPrefix(result.errors, result'.errors)]_vars

\* C8 witness: a run has returned with three entries in errors, the last one
\* appended by the exception handler.
C8_Witness ==
    /\ pc = "returned"
    /\ Len(result.errors) >= 3
    /\ result.errors[Len(result.errors)].msg = "OSError"

C10_NeverPropagates ==
    mode = "single" =>
        /\ pc # "raised"
        /\ pc = "returned" =>
              /\ result.start_time = "stamped" /\ result.end_time = "stamped"
              /\ result.script_path # Absent /\ result.audio_path # Absent
              /\ result.uploaded_url # Absent
              /\ (\E s \in Sources : Failed(s)) => result.errors # <<>>

\* The stage a position of generate_podcast belongs to: fetching, filtering,
\* the count and metadata steps before the script, scripting, synthesizing,
\* publishing (storage, then Drive), done (cleanup, release, return).
StageRank(p) ==
    CASE p \in {"call", "raised"} -> 0
      [] p = "fetch" -> 1
      [] p = "filter" -> 2
      [] p \in {"count", "save_meta"} -> 3
      [] p = "script" -> 4
      [] p = "audio" -> 5
      [] p \in {"upload", "drive"} -> 6
      [] OTHER -> 7

\* C11: within one run of generate_podcast the stages are entered in the order
\* fetching, filtering (only when enabled), scripting, synthesizing, publishing,
\* done: no step goes back to an earlier stage, no collaborator is called
\* twice, synthesizing is entered only with a script produced, and publishing
\* only with an audio artifact.
C11_StagesInOrder ==
    /\ [](mode = "single" =>
            /\ pc = "filter" => smart
            /\ calls["filter"] > 0 => smart
            /\ \A c \in Stages : calls[c] <= 1
            /\ pc = "audio" => (script # None /\ IsSet(result.script_path))
            /\ pc \in {"upload", "drive"} =>
                  (generated_audio # None /\ IsSet(result.audio_path))
            /\ calls["storage"] > 0 => calls["audio"] > 0
            /\ calls["audio"] > 0 => calls["script"] > 0)
    /\ [][mode = "single" => StageRank(pc') >= StageRank(pc)]_vars

\* C11 witness: a run with smart filtering and Drive has called every stage
\* once and has returned.
C11_Witness ==
    /\ mode = "single" /\ smart /\ drive /\ pc = "returned"
    /\ \A c \in Stages : calls[c] = 1

\* ------------------------------------------- the relevance filter call
\* filter_newsletters_parallel has returned to generate_podcast.
FilterReturned == fpc \in {"returned", "saved", "save_failed"}

\* The list the filter was called with (generate_podcast keeps it in
\* all_newsletters).
Batch == all_newsletters
Tasks == 1..Len(Batch)

TaskFailed(t) == future[t].outcome.kind = "error"
TaskRejected(t) ==
    future[t].outcome.kind = "verdict" /\ ~future[t].outcome.is_relevant

\* The verdict of task t's own oracle call, once the task is over.
Verdict(t) ==
    IF TaskFailed(t) THEN error_result ELSE FilterResult(future[t].outcome)

\* The places of item t in a list of pairs.
Places(pairs, t) == {k \in 1..Len(pairs) : pairs[k].newsletter = Batch[t]}

\* C12: an item whose scoring call raised is in the filter's output with the
\* verdict is_relevant = true, relevance_score = 0.5 (5 tenths) and the reason "Error
\* during filtering"; it is appended when its future is yielded and it is in the
\* returned list and in the list generate_podcast goes on with.
C12_FailedItemKeptWithFallback ==
    \A t \in Tasks : TaskFailed(t) =>
        /\ t \in Range(yielded) =>
              \E k \in Places(relevant_newsletters, t) :
                  /\ relevant_newsletters[k].result.is_relevant
                  /\ relevant_newsletters[k].result.relevance_score = 5
                  /\ relevant_newsletters[k].result.reason = "Error during filtering"
        /\ FilterReturned =>
              \E k \in Places(filtered_results, t) :
                  /\ filtered_results[k].result.is_relevant
                  /\ filtered_results[k].result.relevance_score = 5
                  /\ filtered_results[k].result.reason = "Error during filtering"
        /\ fpc = "saved" => Batch[t] \in Range(newsletters)

\* C12 witness: the filter has returned from a batch in which one call raised
\* and another item was judged not relevant.
C12_Witness ==
    /\ fpc = "saved"
    /\ \E t, u \in Tasks : TaskFailed(t) /\ TaskRejected(u)

\* C13: for a non-empty batch, whatever the completion order, the returned list
\* holds exactly the items whose verdict has is_relevant = true, each once and
\* none that was not in the batch, with non-increasing scores; it is the list
\* the one-step filter of Spec computes from the same outcomes and order.
C13_ExactlyRelevantSortedByScore ==
    (FilterReturned /\ Batch # <<>>) =>
        /\ \A t \in Tasks :
              Cardinality(Places(filtered_results, t)) =
                  (IF Verdict(t).is_relevant THEN 1 ELSE 0)
        /\ \A k \in 1..Len(filtered_results) :
              filtered_results[k].newsletter \in Range(Batch)
        /\ \A k \in 1..(Len(filtered_results) - 1) :
              filtered_results[k].result.relevance_score >=
                  filtered_results[k + 1].result.relevance_score
        /\ filtered_results =
              filter_newsletters_parallel(
                  Batch, [t \in Tasks |-> future[t].outcome], yielded)

\* C13 witness: the filter has returned two items of which the one yielded
\* first has the lower score, and has dropped a third.
C13_Witness ==
    /\ FilterReturned /\ Len(yielded) >= 3 /\ Len(filtered_results) = 2
    /\ Verdict(yielded[1]).is_relevant /\ Verdict(yielded[2]).is_relevant
    /\ Verdict(yielded[1]).relevance_score < Verdict(yielded[2]).relevance_score

\* C14: within one filter call the scoring oracle is called once per item:
\* never twice, a failed call is not repeated, an item whose task is over or
\* yielded was called once, at the return every item was; and every returned
\* pair holds the verdict of its own item's call.
C14_OneOracleCallPerItem ==
    /\ \A t \in Tasks :
          /\ oracle_calls[t] <= 1
          /\ (future[t].state = "finished" \/ t \in Range(yielded)) =>
                 oracle_calls[t] = 1
          /\ FilterReturned => oracle_calls[t] = 1
    /\ \A k \in 1..Len(relevant_newsletters) :
          \E t \in Tasks :
              /\ relevant_newsletters[k].newsletter = Batch[t]
              /\ relevant_newsletters[k].result = Verdict(t)
    /\ \A k \in 1..Len(filtered_results) :
          \E t \in Tasks :
              /\ filtered_results[k].newsletter = Batch[t]
              /\ filtered_results[k].result = Verdict(t)

\* C14 witness: the filter has returned from a batch of at least two items in
\* which a call raised and another item was kept.
C14_Witness ==
    /\ FilterReturned
    /\ \E t, u \in Tasks :
          /\ TaskFailed(t)
          /\ future[u].outcome.kind = "verdict" /\ future[u].outcome.is_relevant
          /\ Places(filtered_results, u) # {}

\* C15: at every moment at most min(max_workers, number of items) scoring tasks
\* run at once, with the 10 that generate_podcast passes as with any other
\* limit; and at the return every item has been scored.
C15_ConcurrencyBounded ==
    /\ Cardinality(Running) <= Min(max_workers, Len(Batch))
    /\ FilterReturned =>
          \A t \in Tasks : future[t].state = "finished" /\ oracle_calls[t] = 1

\* C15 witness: max_workers tasks run at once while a further task waits in the
\* queue.
C15_Witness ==
    /\ Cardinality(Running) = max_workers
    /\ max_workers < Len(Batch)
    /\ \E t \in Tasks : future[t].state = "pending"

\* While the loop collects, something can happen next: a task can be yielded,
\* is running, can be started by a free worker, or all are yielded.
FilterCanGoOn ==
    \/ \E t \in Tasks : future[t].state = "finished" /\ t \notin Range(yielded)
    \/ Running # {}
    \/ /\ \E t \in Tasks : future[t].state = "pending"
       /\ Cardinality(Running) < Min(max_workers, Len(Batch))
    \/ Len(yielded) = Len(Batch)

\* C16: a task that raises aborts neither its siblings nor the batch: the call
\* raises only for an empty batch, it is never stuck before its return, and at
\* the return every task is over and every item judged relevant by its own call
\* is in the list with that verdict.
C16_TaskErrorIsContained ==
    /\ Batch # <<>> => fpc # "raised"
    /\ fpc = "submit" => submitted < Len(Batch)
    /\ fpc = "collect" => FilterCanGoOn
    /\ FilterReturned =>
          \A t \in Tasks :
              /\ future[t].state = "finished"
              /\ (future[t].outcome.kind = "verdict" /\ future[t].outcome.is_relevant) =>
                    \E k \in Places(filtered_results, t) :
                        filtered_results[k].result = FilterResult(future[t].outcome)

\* C16 witness: the filter has returned although the first future yielded had
\* raised; items yielded after it were kept with their own verdicts.
C16_Witness ==
    /\ FilterReturned /\ Len(yielded) >= 3
    /\ TaskFailed(yielded[1])
    /\ \A k \in 2..3 :
          /\ ~TaskFailed(yielded[k])
          /\ Places(filtered_results, yielded[k]) # {}

\* An item has an entry in the filter_results snapshot.
InSnapshot(t) == \E k \in 1..Len(filter_data) : filter_data[k].subject = Batch[t]

\* C17 as stated: once the filter_results file is written, the verdict of
\* every scored item, the rejected ones included, is found in the filter's
\* output or in the snapshot.
C17_AllVerdictsAvailable ==
    fpc = "saved" =>
        \A t \in Tasks : Places(filtered_results, t) # {} \/ InSnapshot(t)

\* C17 as amended: the filter's output and the snapshot hold the verdicts of
\* the kept items only, pair by pair the same; an item judged not relevant is
\* in neither, nor in the list generate_podcast goes on with.
C17_OnlyKeptVerdictsAvailable ==
    fpc = "saved" =>
        /\ Len(filter_data) = Len(filtered_results)
        /\ \A k \in 1..Len(filtered_results) :
              /\ filter_data[k].subject = filtered_results[k].newsletter
              /\ filter_data[k].relevance_score =
                     filtered_results[k].result.relevance_score
              /\ filter_data[k].reason = filtered_results[k].result.reason
        /\ \A t \in Tasks :
              /\ InSnapshot(t) <=> Verdict(t).is_relevant
              /\ TaskRejected(t) =>
                    /\ Places(filtered_results, t) = {}
                    /\ ~InSnapshot(t)
                    /\ Batch[t] \notin Range(newsletters)

\* C17 witness: the snapshot is written for a batch of which one item was
\* rejected and one kept.
C17_Witness ==
    /\ fpc = "saved"
    /\ \E t, u \in Tasks : TaskRejected(t) /\ InSnapshot(u)

\* ------------------------------------------------------ the fetch cache
\* Run r takes its look into the cache in this step.
ReadBy(r) == cpc[r] = "call" /\ cpc'[r] # "call"

\* The file holds what run o wrote, whole: o wrote every chunk of its document
\* and no other write has touched the file since.
WrittenBy(o) ==
    /\ cpc[o] \in {"write", "returned"}
    /\ offset[o] = Len(CacheDocument(live[o]))
    /\ cache_file.exists /\ cache_file.readable
    /\ cache_file.content = CacheDocument(live[o])

\* C18: a read of the cache that follows a whole write, with the same
\* fingerprint, returns exactly the list written (same newsletters, same fields,
\* same order) without connecting while the file's age is below 3600 seconds;
\* at an age of 3600 seconds or more it is a miss and the call goes on to the
\* live fetch.  The age is the one the code computes, now minus the mtime.
C18_CacheRoundTripWithinTTL ==
    [][\A r, o \in Runs :
          (ReadBy(r) /\ use_cache[r] /\ WrittenBy(o)) =>
              IF now - cache_file.mtime < 3600
              THEN /\ cpc'[r] = "returned"
                   /\ returned'[r] = live[o]
                   /\ connection'[r] = connection[r]
              ELSE /\ cpc'[r] = "connect"
                   /\ cache_read'[r] = "expired"]_vars

\* C18 witness: a run has returned from the cache, 3599 seconds after the
\* write, the two newsletters the other run had fetched and written.
C18_Witness ==
    \E r, o \in Runs :
        /\ cache_read[r] = "hit" /\ cpc[r] = "returned"
        /\ WrittenBy(o)
        /\ Len(live[o]) = 2 /\ returned[r] = live[o]
        /\ connection[r] = "none"
        /\ ticks = 1 /\ now - cache_file.mtime = CacheTTL - 1

\* C19: a cache file that cannot be opened or loaded is a miss: the call raises
\* nothing, goes on to connect and fetch, and returns what the live fetch
\* returns.
C19_CorruptEntryIsMiss ==
    /\ [](\A r \in Runs : cache_read[r] \in {"corrupt", "unreadable"} =>
             /\ cpc[r] \in {"connect", "fetch", "save", "write", "returned"}
             /\ cpc[r] = "returned" => returned[r] = live[r])
    /\ [][\A r \in Runs :
             (ReadBy(r) /\ use_cache[r] /\ cache_file.exists
                 /\ Fresh(now - cache_file.mtime)
                 /\ ~LoadCachedNewsletters(cache_file).ok) =>
                 /\ cache_read'[r] \in {"corrupt", "unreadable"}
                 /\ cpc'[r] = "connect"]_vars

\* C19 witness: a run that found a damaged file, before the other run did
\* anything, has returned the two newsletters of its live fetch.
C19_Witness ==
    \E r, o \in Runs :
        /\ r # o /\ cpc[o] = "call"
        /\ cache_read[r] = "corrupt" /\ cpc[r] = "returned"
        /\ Len(live[r]) = 2 /\ returned[r] = live[r]

SameTerms(a, b) ==
    /\ Len(a) = Len(b)
    /\ \A x \in Range(a) \cup Range(b) :
          Cardinality({k \in 1..Len(a) : a[k] = x}) =
              Cardinality({k \in 1..Len(b) : b[k] = x})

\* Two calls agree in account, lookback window, folder and keyword filters, the
\* order of the filters and the difference of None and [] set aside.
SameQuery(r, o) ==
    /\ service[r].email_address = service[o].email_address
    /\ request[r].hours_lookback = request[o].hours_lookback
    /\ request[r].folder = request[o].folder
    /\ SameTerms(request[r].newsletter_filters.list,
                 request[o].newsletter_filters.list)

\* C21: two calls equal in account, lookback window, folder and keyword
\* filters get the same cache key, whatever else differs between the two
\* objects; the order of the filters does not change the key, and no list
\* and the empty list give the same key.
C21_KeyIsFunctionOfQuery ==
    \A r, o \in Runs :
        (cache_key[r] # NoKey /\ cache_key[o] # NoKey /\ SameQuery(r, o)) =>
            cache_key[r] = cache_key[o]

\* C21 witness: two objects with different servers, one called with the terms
\* in one order and the other in the other order, have the same key; so would
\* a call with None and a call with [].
C21_Witness ==
    \E r, o \in Runs :
        /\ cache_key[r] # NoKey /\ cache_key[r] = cache_key[o]
        /\ service[r].imap_server # service[o].imap_server
        /\ Len(request[r].newsletter_filters.list) = 2
        /\ request[r].newsletter_filters.list # request[o].newsletter_filters.list

\* ------------------------------------------------- the keyword filter
\* The same letter, in either case.
SameLetter(c, d) ==
    \/ c = d
    \/ c \in 65..90 /\ d = c + 32
    \/ d \in 65..90 /\ c = d + 32

\* The term occurs in the text, the case of the letters set aside.
MatchesIgnoringCase(term, text) ==
    \E k \in 0..(Len(text) - Len(term)) :
        \A j \in 1..Len(term) : SameLetter(term[j], text[k + j])

\* The item is among the newsletters the fetch returned.
Included(message) == \E k \in 1..Len(scan.newsletters) : scan.newsletters[k] = message

\* C22: a live fetch that returns, called with a non-empty keyword list,
\* includes a message of the time window exactly if some term of the list
\* occurs, case set aside, in the message's subject and sender joined (by the
\* blank the code puts between them); called with no list or the empty list
\* it includes every message of the time window.
C22_IncludedIffSomeTermMatches ==
    scan.pc = "returned" =>
        \A k \in 1..Len(scan.messages) :
            LET message == scan.messages[k]
                terms == scan.newsletter_filters.list
            IN Included(message) <=>
                   \/ terms = <<>>
                   \/ \E t \in 1..Len(terms) :
                         MatchesIgnoringCase(terms[t],
                             message.subject \o <<32>> \o message.sender)

\* C22 witness: a fetch returned with one message included for a term that
\* differs from the message's text in case, and another message left out.
C22_Witness ==
    /\ scan.pc = "returned"
    /\ scan.newsletter_filters.list = << <<65>> >>
    /\ Len(scan.messages) = 2 /\ Len(scan.newsletters) = 1
    /\ scan.newsletters[1].subject = <<97>>

\* --------------------------------------- which keyword filters are passed
\* The list is one made from the user profile.
FromProfile(filters) ==
    /\ filters.given
    /\ Range(filters.list) = SimpleFilterSet(call.user_role, call.interests)

ScriptFailed ==
    mode = "single" /\ calls["script"] > 0 /\ script \notin {None, "script"}

\* C24: when summarize_newsletters fails it returns the error placeholder
\* and raises nothing: the run goes on to text_to_speech, which is called with
\* the placeholder as its text, and the run may end successful; a run that ends
\* before text_to_speech does so because the script file could not be written.
C24_ScriptFailureYieldsPlaceholder ==
    ScriptFailed =>
        /\ script = "Error generating podcast script"
        /\ pc # "raised"
        /\ calls["audio"] = 0 =>
              \/ pc = "audio" /\ result.script_path = "podcast_script.txt"
              \/ /\ pc \in {"cleanup", "disconnect", "returned"}
                 /\ result.errors # <<>>
                 /\ result.errors[Len(result.errors)] = Err("OSError", 0)
        /\ calls["audio"] > 0 => sent.text = script

\* C24 witness: a run whose script call failed has returned successful, after
\* text_to_speech was called with the placeholder.
C24_Witness ==
    /\ ScriptFailed /\ pc = "returned" /\ result.success
    /\ sent.text = "Error generating podcast script"

\* ------------------------------------------- which errors are recorded
\* C25 as stated: every failure that does not end the run (of an account's
\* fetch, of the script call, of the Drive upload) is found in errors, and
\* after a failure that ends it (of the audio call, of the storage call)
\* success is false and no later stage is called.  (A failed scoring task of
\* the relevance filter leaves no entry in errors either: no step of SpecFilter
\* changes result.)
C25_EveryFailureIsRecorded ==
    mode = "single" =>
        /\ \A s \in Sources :
              Failed(s) => Err("Failed to fetch from", s) \in Range(result.errors)
        /\ (ScriptFailed /\ pc # "script") =>
              \E k \in 1..Len(result.errors) : result.errors[k].msg = script
        /\ DriveUploadFailed => DriveError \in Range(result.errors)
        /\ AudioFailed =>
              (~result.success /\ calls["storage"] = 0 /\ calls["drive"] = 0)
        /\ StorageFailed => (~result.success /\ calls["drive"] = 0)

\* ------------------------------------------------------------ quick mode
\* The rules of the stages' order and of the failures that end a run.
StageRules ==
    /\ pc = "filter" => smart
    /\ \A c \in Stages : calls[c] <= 1
    /\ pc = "audio" => (script # None /\ IsSet(result.script_path))
    /\ pc \in {"upload", "drive"} => (generated_audio # None /\ IsSet(result.audio_path))
    /\ calls["storage"] > 0 => calls["audio"] > 0
    /\ calls["audio"] > 0 => calls["script"] > 0
    /\ all_newsletters = <<>> => calls["script"] = 0
    /\ AudioFailed => (~result.success /\ calls["storage"] = 0 /\ calls["drive"] = 0)
    /\ StorageFailed => (~result.success /\ calls["drive"] = 0)
    /\ DriveUploadFailed => result.success

C27_SegmentedRunSucceeds ==
    (mode = "segmented" /\ pc = "returned") =>
        /\ result.success
        /\ result.audio_files # Absent

\* ------------------------------------------------ combining the segments
\* The files of the segments 1..k whose audio was made, in segment order.
RECURSIVE Produced(_)
Produced(k) ==
    IF k = 0 THEN <<>>
    ELSE Produced(k - 1) \o (IF voice.made[k] THEN <<SegmentFile(k)>> ELSE <<>>)

\* C28: a call with combine that has returned: if more than one segment file
\* was made and combining them succeeded, the combined file alone is returned;
\* if combining failed, the segment files are returned in segment order; and
\* with no file or one file nothing is combined and these files are returned.
C28_CombineOrFallBack ==
    (voice.pc = "returned" /\ voice.combine) =>
        LET files == Produced(voice.segments)
        IN /\ Len(files) > 1 => voice.combined # "no"
           /\ voice.combined = "done" => voice.returned = <<CombinedFile>>
           /\ voice.combined = "failed" => (Len(files) > 1 /\ voice.returned = files)
           /\ Len(files) <= 1 => (voice.combined = "no" /\ voice.returned = files)

\* C28 witness: of three segments the second got no audio, combining the two
\* files failed, and the two were returned in their order.
C28_Witness ==
    /\ voice.pc = "returned" /\ voice.combine
    /\ voice.made = <<TRUE, FALSE, TRUE>>
    /\ voice.combined = "failed"
    /\ voice.returned = <<SegmentFile(1), SegmentFile(3)>>

\* ------------------------------------------------- the parse of a verdict
\* The oracle answered and its answer, as taken, is not JSON.
ParseFailed ==
    /\ oracle.pc \in {"returned", "judged"}
    /\ ~JsonLoads(oracle.json_str).ok

\* The words "true" (in any case) and "is_relevant" both occur in the answer.
SaysRelevant ==
    /\ {"true", "True"} \cap Range(oracle.result_text) # {}
    /\ {"is_relevant:", "is_relevant"} \cap Range(oracle.result_text) # {}

\* C29 as stated: after a parse failure the verdict has score 0.5, the reason
\* of a parse failure, and the relevance the raw answer suggests.
C29_ParseFailureScoresHalf ==
    ParseFailed =>
        /\ oracle.result.relevance_score = FallbackScore
        /\ oracle.result.reason = "JSON parse error - decision based on text analysis"
        /\ Truth(oracle.result.is_relevant) = SaysRelevant

\* C29 as amended: after a parse failure the verdict has the reason of a
\* parse failure and the relevance the raw answer suggests, and its score is
\* 0.5 if that relevance is true and 0.0 if it is false.
C29_ParseFailureScoresByRelevance ==
    ParseFailed =>
        /\ oracle.result.reason = "JSON parse error - decision based on text analysis"
        /\ Truth(oracle.result.is_relevant) = SaysRelevant
        /\ oracle.result.relevance_score = (IF SaysRelevant THEN FallbackScore ELSE 0)
        /\ oracle.pc = "judged" => oracle.verdict = oracle.result

\* C29 witness: the answer "Sure" has been judged: not relevant, score 0.0.
C29_Witness ==
    /\ ParseFailed /\ oracle.pc = "judged"
    /\ oracle.result_text = <<"Sure">>
    /\ oracle.verdict.relevance_score = 0
    /\ ~Truth(oracle.verdict.is_relevant)

\* C30 as stated: every verdict, parsed, made after a parse failure or made
\* after an error, has a score from 0 to 1.
C30_ScoreInUnitInterval ==
    oracle.pc \in {"judged", "judged_error"} =>
        (0 <= oracle.verdict.relevance_score /\ oracle.verdict.relevance_score <= 10)

\* ------------------------------------------ the life of an EmailService
\* The calls made so far on the object, by position in its history.
Calls == 1..Len(imap.log)

\* Call k was a disconnect() that directly followed another disconnect().
SecondDisconnect(k) ==
    /\ k > 1
    /\ imap.log[k].op = "disconnect"
    /\ imap.log[k - 1].op = "disconnect"

\* C31: EmailService.disconnect may be called in any state of the object
\* (never connected, connected, a folder selected, already disconnected, the
\* socket dead so that the release raises) without raising, and a second call
\* right after a first has no further effect on the object.
C31_DisconnectIsSilentAndIdempotent ==
    \A k \in Calls :
        /\ imap.log[k].op = "disconnect" => ~imap.log[k].raised
        /\ SecondDisconnect(k) => imap.log[k].after = imap.log[k].before

\* disconnect() was called twice in a row on a selected connection whose
\* socket was dead, so that the first call's close() raised.
C31_Witness ==
    \E k \in Calls :
        /\ SecondDisconnect(k)
        /\ imap.log[k - 1].before = [connection |-> "SELECTED", broken |-> TRUE]
        /\ imap.log[k - 1].after.connection = "AUTH"

\* Call k was a fetch that directly followed a disconnect() of an object that
\* held a connection.
FetchAfterDisconnect(k) ==
    /\ k > 1
    /\ imap.log[k].op = "fetch"
    /\ imap.log[k - 1].op = "disconnect"
    /\ imap.log[k - 1].before.connection # None

\* C38: after a source has been disconnected, a later fetch_newsletters on
\* the same EmailService that misses the cache establishes a new connection
\* before it queries, when the server can be reached.
C38_FetchAfterDisconnectReconnects ==
    \A k \in Calls :
        FetchAfterDisconnect(k) /\ imap.reachable => imap.log[k].connected

\* ------------------------------------------------ a hit of the fetch cache
\* Run r's look into the cache is a hit in this step.
HitStep(r) == cache_read[r] # "hit" /\ cache_read'[r] = "hit"

\* C37: on a cache hit fetch_newsletters returns the cached items, and it
\* neither connects to the mail server nor reads from it: the call is over
\* in the step of the hit, with the connection as it was.
C37_CacheHitLeavesSourceAlone ==
    [][\A r \in Runs :
          HitStep(r) =>
              /\ returned'[r] = LoadCachedNewsletters(cache_file).newsletters
              /\ cpc'[r] = "returned"
              /\ connection' = connection
              /\ live' = live]_vars

\* A run that held a connection got a list that is not empty from the
\* cache and read nothing from the server; the other run had no connection
\* when its call began, and has none.
C37_Witness ==
    \E r \in Runs :
        /\ cache_read[r] = "hit"
        /\ cpc[r] = "returned"
        /\ returned[r] # <<>>
        /\ connection[r] = "open"
        /\ live[r] = <<>>

\* ------------------------------------------------ who writes the cache
\* This step is a step of run r's call, and of no other run's.
StepOf(r) ==
    /\ cpc'[r] # cpc[r] \/ offset'[r] # offset[r]
    /\ \A q \in Runs \ {r} : cpc'[q] = cpc[q] /\ offset'[q] = offset[q]

\* Run r's call ends in this step without having reached the save: the
\* connection was refused, the search or a read raised, or caching is off.
EndsBeforeSave(r) ==
    /\ cpc[r] \in {"connect", "fetch"}
    /\ cpc'[r] = "returned"

\* C36: the cache file is written or overwritten only by a call whose live
\* fetch went through with caching on (the call is at its save); a call whose
\* live fetch fails - the connection refused, an error in the search or in a
\* read - ends with the file as it was.
C36_OnlySuccessfulFetchWritesCache ==
    [][/\ cache_file' # cache_file =>
            \E r \in Runs : /\ StepOf(r)
                            /\ use_cache[r]
                            /\ cpc[r] \in {"save", "write"}
                            /\ cache_read[r] # "hit"
       /\ \A r \in Runs : EndsBeforeSave(r) => cache_file' = cache_file]_vars

\* A call with caching on failed in its live fetch and returned [] while the
\* cache file held the entry another call had written; the entry is there.
C36_Witness ==
    \E r \in Runs :
        /\ use_cache[r]
        /\ cpc[r] = "returned"
        /\ cache_read[r] \in {"expired", "corrupt", "unreadable", "absent"}
        /\ live[r] = <<>>
        /\ offset[r] = 0
        /\ returned[r] = <<>>
        /\ cache_file.exists
        /\ LoadCachedNewsletters(cache_file).ok
        /\ LoadCachedNewsletters(cache_file).newsletters # <<>>

\* ------------------------------------------------ the filter is a barrier
\* filter_newsletters_parallel has sorted its list and returned, or
\* generate_podcast has gone on past step 1.5.
PastFiltering == fpc \in {"returned", "saved", "save_failed"} \/ pc # "filter"

\* C34: the sort of the relevant list, the return of
\* filter_newsletters_parallel and what generate_podcast does next come only
\* after every task was submitted and has ended, with a result or an error:
\* no scoring task is queued or running from then on.
C34_FilteringIsBarrier ==
    PastFiltering =>
        /\ submitted = Len(future)
        /\ \A t \in DOMAIN future : future[t].state = "finished"

\* generate_podcast has gone on with the filtered list of a call that had
\* more tasks than workers, one of which raised.
C34_Witness ==
    /\ pc = "count" /\ fpc = "saved"
    /\ Len(future) > PoolSize(max_workers, Len(future))
    /\ \E t \in DOMAIN future : future[t].outcome.kind = "error"
    /\ \E t \in DOMAIN future : future[t].outcome.kind # "error"

\* ------------------------------------------------ the span that is parsed
\* Opening braces less closing braces in text[a..b].
Depth(text, a, b) ==
    Cardinality({j \in a..b : text[j] = "{"})
        - Cardinality({j \in a..b : text[j] = "}"})

\* The least member of a set of numbers that is not empty.
Least(S) == CHOOSE k \in S : \A j \in S : k <= j

\* The span of text the claim describes: from the first "{" to the first
\* position at which the depth counted from there is zero; the whole text if
\* there is no such position.
BalancedSpan(text) ==
    LET first == Least({k \in 1..Len(text) : text[k] = "{"})
        zero == {k \in first..Len(text) : Depth(text, first, k) = 0}
    IN IF zero = {} THEN text ELSE SubSeq(text, first, Least(zero))

\* The text for json.loads has just been taken from the response.
JsonTaken == oracle.pc = "parse"

Judged == oracle.pc \in {"judged", "judged_error"}

\* The parsed object has a member with this key.
HasKey(result_data, key) ==
    \E k \in 1..Len(result_data.members) : result_data.members[k].key = key

\* json.loads accepted the text taken from the response, and the value is an
\* object without the key is_relevant.
OmitsIsRelevant ==
    /\ oracle.json_str # <<>>
    /\ JsonLoads(oracle.json_str).ok
    /\ JsonLoads(oracle.json_str).value.kind = "object"
    /\ ~HasKey(JsonLoads(oracle.json_str).value, "is_relevant:")

\* The relevance_score of the parsed object: missing, or one float() accepts.
ScoreUsable ==
    Score(Get(JsonLoads(oracle.json_str).value, "relevance_score:", Scalar("0.0"))).ok

\* `if result.is_relevant` appends the pair, and so does the except branch.
Retained == oracle.pc = "judged_error" \/ Truth(oracle.verdict.is_relevant)

\* The score of a verdict without relevance_score.
DefaultedScore ==
    ~HasKey(JsonLoads(oracle.json_str).value, "relevance_score:")
        => oracle.verdict.relevance_score = 0

\* C39 as stated: a verdict that json.loads accepted and that omits
\* is_relevant is not relevant, its score 0.0 if it omits that too, and its
\* item is dropped; the fallback verdict comes from an error of the oracle
\* call only.
C39_OmittedIsRelevantIsDropped ==
    /\ Judged /\ OmitsIsRelevant => ~Retained /\ DefaultedScore
    /\ oracle.pc = "judged_error" => oracle.error = "APIError"

\* C39, amended: a parsed object that omits is_relevant and whose
\* relevance_score is missing or one float() accepts is not relevant, its
\* score 0.0 if missing, and its item is dropped; the fallback verdict is the
\* verdict of a task that raised, and of no other: the oracle call failed, the
\* parsed value is no object, or float() rejected the relevance_score.
C39_OmittedIsRelevantIsDroppedIfScoreUsable ==
    /\ Judged /\ OmitsIsRelevant /\ ScoreUsable =>
           /\ oracle.pc = "judged"
           /\ ~Retained
           /\ DefaultedScore
    /\ Judged /\ OmitsIsRelevant /\ ~ScoreUsable => oracle.error = "ValueError"
    /\ Judged => (oracle.verdict = ErrorVerdict <=> oracle.pc = "judged_error")
    /\ oracle.pc = "judged_error" =>
           oracle.error \in {"APIError", "AttributeError", "ValueError"}

\* An object with a relevance_score of 0.7 and no is_relevant was parsed, and
\* its item was dropped.
C39_Witness ==
    /\ oracle.pc = "judged"
    /\ OmitsIsRelevant
    /\ oracle.verdict.relevance_score = 7
    /\ ~Retained

\* ------------------------------------------ the files of concurrent runs
\* C32: of two runs that execute at the same time, neither overwrites (or
\* removes) a file the other wrote, and neither reads one: the script, the
\* audio, the segments and the files of the concatenation are each run's own.
C32_RunsShareNoFiles ==
    \A r \in Runs :
        /\ ~disk.run[r].overwrote
        /\ disk.run[r].read \in {None, r}

\* ------------------------------------------------ every run comes to an end
\* The call of generate_podcast is over: it has returned, or an error has
\* left it.
RunOver == mode = "single" /\ pc \in {"returned", "raised"}

\* C33: with every call to a collaborator returning or failing, a run of
\* generate_podcast ends by returning its result, finalized: end_time is
\* stamped and every source was released.  Here for a run that is over.
C33_RunEndsWithFinalizedResult ==
    RunOver =>
        /\ pc = "returned"
        /\ result.end_time = "stamped"
        /\ \A s \in Sources : disconnects[s] = 1

====
